---- MODULE Spec2Model ----
(***************************************************************************)
(* A model of the numeric core of Hel: the row-wise Q4 codec               *)
(* (kernels/q4_rowwise.cpp), the reference and vectorised GEMM kernels     *)
(* (kernels/gemm_ref.cpp, kernels/optimized/simd_gemm.cpp), the arena      *)
(* TensorPool (alloc.cpp) and FlashAttention with its KVCache              *)
(* (kernels/optimized/flash_attention.cpp).                                *)
(*                                                                         *)
(* Floats are modelled by integers: a weight, a scale, an activation is an *)
(* integer, a quotient is rounded as std::round rounds it, and exp() is a  *)
(* fixed-point table.  Buffers are functions over 0..n-1 so that the       *)
(* source's flat indices are the model's indices.                          *)
(***************************************************************************)
EXTENDS Integers, Sequences, FiniteSets, TLC

VARIABLES
    \* ---- Q4 codec (q4_rowwise.cpp) ----
    qM, qK,          \* rows and columns of the weight matrix
    weights,         \* float weights[M*K], row-major
    scales,          \* float scales[M], one positive scale per row
    qx,              \* float x[K], the input vector of the matvec
    castMode,        \* what the build does on an out-of-range float -> int8_t cast
    qweights,        \* uint8_t qweights[(M*K+1)/2], the packed buffer
    qpacked,         \* TRUE once pack_q4_rowwise has filled qweights from weights
    qout,            \* float out[M*K] of dequantize_q4_rowwise (<<>> before the call)
    qy,              \* float y[M] of matvec_q4_rowwise (<<>> before the call)
    qyAvx,           \* float y[M] of simd::matvec_q4_avx2 (<<>> before the call)
    \* ---- GEMM (gemm_ref.cpp, simd_gemm.cpp) ----
    gM, gK, gN,      \* A is [M,K], B is [K,N], C is [M,N], all row-major
    gA, gB, gC,      \* the three buffers
    alpha, beta,     \* C <- alpha*A*B + beta*C
    gKernel,         \* the kernel that has run on gC: "none", "ref", "avx2", "avx512"
    gWrites,         \* gWrites[i]: how many times the kernel stored into C[i]
    \* ---- TensorPool (alloc.cpp) ----
    chunks,          \* the Chunk list from head_ on: records [data, size], data 0 = nullptr
    total_allocated_,
    total_used_,
    poolBuffers,     \* the buffers AlignedAllocator::allocate has returned: [base, size]
    nextAddr,        \* the address the next AlignedAllocator buffer starts at
    poolLastOp,      \* the last call: "ctor", "alloc", "reset", "overflow", "dtor"
    poolReq,         \* the size asked of the last allocate
    poolResult,      \* the pointer the last allocate returned
    poolRegions,     \* the regions [base, size] allocate returned since the last reset, in order
    poolFreed,       \* the pointers the destructor handed to free(), in order
    \* ---- FlashAttention and KVCache (flash_attention.cpp, transformer.hpp) ----
    aB, aS, aH, aD,  \* batch, sequence length, num_heads_, head_dim_
    aQ, aK, aV,      \* query, key, value: [batch, sequence, hidden], row-major
    aCut,            \* the position up to which aK2/aV2 agree with aK/aV
    aK2, aV2,        \* a second key/value input, altered at positions t > aCut
    aCache,          \* the KVCache handed to the cached forward calls
    aFed,            \* how many positions the cached forward calls were given
    aSlices,         \* the number of positions of each cached forward call
    aOutInc,         \* the output tensor of each cached forward call
    aOutFull,        \* output of forward(aQ, aK, aV, nullptr) (<<>> before the call)
    aOutFull2,       \* output of forward(aQ, aK2, aV2, nullptr) (<<>> before the call)
    \* ---- BatchProcessor (batch_processor.cpp) ----
    max_batch_size_, queue_size_,
    request_queue_,  \* the ids of the queued requests, front first
    running_,
    processing_thread_, \* the thread the unique_ptr holds, 0 = empty
    queue_mutex_,    \* the processing thread that holds queue_mutex_, 0 = free
    loopPc,          \* where each processing_loop thread is
    loopBatch,       \* the local `batch` of each processing_loop thread
    joined,          \* the threads a join() has returned for
    callerPc,        \* where each client thread is inside start() or stop()
    callerThread,    \* the thread a client created in start() or joins in stop()
    promise,         \* the shared state of each request's result_promise
    inferenceFails,  \* the requests whose inference throws
    setCount,        \* how many set_value/set_exception calls stored into each promise
    submitResult,    \* the outcome of the last submit_request
    terminated,      \* TRUE once std::terminate was called
    \* ---- Tensor (tensor.hpp, tensor.cpp) ----
    intMode,         \* what the build does when a product of ints overflows
    tensors,         \* the Tensor object of each program variable
    heap,            \* the live buffers: buffer id -> bytes
    tLast,           \* the last Tensor call and how it ended
    \* ---- GemmRef::matmul / matvec on Tensors (gemm_ref.cpp) ----
    cShapeA, cShapeB, cShapeC,  \* the shapes of the three FP32 tensors of the call
    cA, cB, cC,      \* their elements
    cOp,             \* the call made: "none", "matmul", "matvec"
    cStatus,         \* how it ended: "none", "ok", "error"
    cAlpha, cBeta,   \* the alpha and beta of the call made (0 before it)
    \* ---- FlashAttention::forward on arbitrary shapes (flash_attention.cpp) ----
    fShapeQ, fShapeK, fShapeV,  \* the shapes of query, key, value
    fHeads, fHeadDim,           \* num_heads_, head_dim_ of the FlashAttention
    fQ, fK, fV,      \* the elements of query, key, value
    fStatus,         \* how the call ended: "none", "ok", "error"
    fOut,            \* the output tensor's elements (<<>> when none was returned)
    fWritten,        \* the output indices the copy-back loops stored into
    fReadPast,       \* TRUE when the call read past the end of key or value
    \* ---- ThreadPool (threadpool.cpp) ----
    num_threads,     \* the number of workers the constructor started
    tasks_,          \* the ids of the queued tasks, front first
    stop_,
    poolMutex,       \* who holds the pool's queue_mutex_: <<"free", 0>>, <<"worker", w>>, <<"client", c>>
    workerPc,        \* where each worker is inside worker_loop
    workerTask,      \* the local `task` of each worker, 0 = none
    tasksDone,       \* the tasks whose task() has returned
    submitted,       \* how many tasks submit() has queued
    clientPc,        \* where each client thread is inside submit(), wait() or the destructor
    clientTask,      \* the task a client's submit() in progress has queued, 0 = none
    waitFor,         \* the tasks whose submit() had returned before each client's last wait() call
    joinIdx          \* the worker the destructor joins next

q4vars == <<qM, qK, weights, scales, qx, castMode, qweights, qpacked, qout, qy,
            qyAvx>>

gemmvars == <<gM, gK, gN, gA, gB, gC, alpha, beta, gKernel, gWrites>>

poolvars == <<chunks, total_allocated_, total_used_, poolBuffers, nextAddr,
              poolLastOp, poolReq, poolResult, poolRegions, poolFreed>>

attnvars == <<aB, aS, aH, aD, aQ, aK, aV, aCut, aK2, aV2, aCache, aFed, aSlices,
              aOutInc, aOutFull, aOutFull2>>

batchvars == <<max_batch_size_, queue_size_, request_queue_, running_,
               processing_thread_, queue_mutex_, loopPc, loopBatch, joined,
               callerPc, callerThread, promise, inferenceFails, setCount,
               submitResult, terminated>>

tensorvars == <<intMode, tensors, heap, tLast>>

callvars == <<cShapeA, cShapeB, cShapeC, cA, cB, cC, cOp, cStatus, cAlpha, cBeta>>

fwdvars == <<fShapeQ, fShapeK, fShapeV, fHeads, fHeadDim, fQ, fK, fV, fStatus,
             fOut, fWritten, fReadPast>>

threadvars == <<num_threads, tasks_, stop_, poolMutex, workerPc, workerTask,
                tasksDone, submitted, clientPc, clientTask, waitFor, joinIdx>>

vars == <<q4vars, gemmvars, poolvars, attnvars, batchvars, tensorvars, callvars,
          fwdvars, threadvars>>

\* What a call into one component leaves alone: the other components.
notQ4 == <<gemmvars, poolvars, attnvars, batchvars, tensorvars, callvars, fwdvars,
    threadvars>>

notGemm == <<q4vars, poolvars, attnvars, batchvars, tensorvars, callvars, fwdvars,
    threadvars>>

notPool == <<q4vars, gemmvars, attnvars, batchvars, tensorvars, callvars, fwdvars,
    threadvars>>

notAttn == <<q4vars, gemmvars, poolvars, batchvars, tensorvars, callvars, fwdvars,
    threadvars>>

notBatch == <<q4vars, gemmvars, poolvars, attnvars, tensorvars, callvars, fwdvars,
    threadvars>>

notTensor == <<q4vars, gemmvars, poolvars, attnvars, batchvars, callvars, fwdvars,
    threadvars>>

notCall == <<q4vars, gemmvars, poolvars, attnvars, batchvars, tensorvars, fwdvars,
    threadvars>>

notFwd == <<q4vars, gemmvars, poolvars, attnvars, batchvars, tensorvars, callvars,
    threadvars>>

notThreads == <<q4vars, gemmvars, poolvars, attnvars, batchvars, tensorvars, callvars,
    fwdvars>>

(***************************************************************************)
(* Bounds of the model.                                                    *)
(***************************************************************************)
MaxQM == 2
MaxQK == 3
MaxScale == 3
MaxGM == 2
MaxGN == 2
MaxGK == 17
MaxInitialSize == 4
MaxRequest == 4
MaxChunks == 6
MaxPoolBytes == 16
MaxBatch == 2
MaxSeq == 5
MaxHeads == 2
MaxHeadDim == 2
MaxQueueSize == 2
MaxBatchSize == 2
MaxSubmits == 2
MaxDim == 2
MaxAlloc == 16
MaxCallDim == 2
MaxFwdDim == 2
MaxWorkers == 2
MaxTasks == 2

(***************************************************************************)
(* Helpers on integers.                                                    *)
(***************************************************************************)
Abs(x) == IF x < 0 THEN -x ELSE x

Min(a, b) == IF a < b THEN a ELSE b

Max(a, b) == IF a > b THEN a ELSE b

(***************************************************************************)
(* Q4 codec.                                                               *)
(***************************************************************************)

\* std::round(w / scale): the quotient rounded half away from zero.
RoundQuot(w, s) ==
    IF w >= 0 THEN (2 * w + s) \div (2 * s)
              ELSE -((2 * (-w) + s) \div (2 * s))

\* static_cast<int8_t>(r) of a rounded float r.  In range the value is kept;
\* out of range the conversion is undefined, and the build either keeps the
\* low byte of the 32-bit conversion (wrap) or pins the value (saturate).
CastInt8(r, mode) ==
    IF r >= -128 /\ r <= 127 THEN r
    ELSE IF mode = "wrap"
         THEN LET u == ((r % 256) + 256) % 256 IN IF u >= 128 THEN u - 256 ELSE u
         ELSE IF r > 127 THEN 127 ELSE -128

\* q = std::max(int8_t(-8), std::min(int8_t(7), q))
ClampQ4(q) == Max(-8, Min(7, q))

\* The quantised value pack_q4_rowwise computes for weight w under scale s.
QuantizeQ4(w, s, mode) == ClampQ4(CastInt8(RoundQuot(w, s), mode))

\* static_cast<uint8_t>(q) & 0x0F
NibbleOf(q) == ((q % 16) + 16) % 16

\* One iteration of the inner loop of pack_q4_rowwise: the byte built from
\* elements (m,k) and (m,k+1), the second only when k+1 < K.
PackByte(w, sc, m, k, K, mode) ==
    LET q1 == QuantizeQ4(w[m * K + k], sc[m], mode)
        lo == NibbleOf(q1)
        hi == IF k + 1 < K
              THEN NibbleOf(QuantizeQ4(w[m * K + k + 1], sc[m], mode)) * 16
              ELSE 0
    IN lo + hi

\* The loops of pack_q4_rowwise from (m,k) on: every even k of every row
\* stores its byte at index (m*K+k)/2, overwriting what was there.
RECURSIVE PackLoop(_, _, _, _, _, _, _, _)
PackLoop(qw, w, sc, M, K, mode, m, k) ==
    IF m >= M THEN qw
    ELSE IF k >= K THEN PackLoop(qw, w, sc, M, K, mode, m + 1, 0)
    ELSE PackLoop([qw EXCEPT ![(m * K + k) \div 2] = PackByte(w, sc, m, k, K, mode)],
                  w, sc, M, K, mode, m, k + 2)

pack_q4_rowwise(qw, w, sc, M, K, mode) == PackLoop(qw, w, sc, M, K, mode, 0, 0)

\* decode_q4_signed: (nib & 8) ? int8_t(nib - 16) : int8_t(nib)
decode_q4_signed(nib) == IF (nib \div 8) % 2 = 1 THEN nib - 16 ELSE nib

\* The nibble the readers take for element (m,k): byte (m*K+k)/2, low nibble
\* for even k, high nibble for odd k.
ReadNibble(qw, m, k, K) ==
    LET packed_byte == qw[(m * K + k) \div 2]
    IN IF k % 2 = 0 THEN packed_byte % 16 ELSE packed_byte \div 16

dequantize_q4_rowwise(qw, sc, M, K) ==
    [i \in 0..(M * K - 1) |->
        decode_q4_signed(ReadNibble(qw, i \div K, i % K, K)) * sc[i \div K]]

\* The inner loop of matvec_q4_rowwise: sum += dequant * x[k], k = 0..K-1.
RECURSIVE MatvecQ4Row(_, _, _, _, _)
MatvecQ4Row(qw, x, m, K, k) ==
    IF k >= K THEN 0
    ELSE decode_q4_signed(ReadNibble(qw, m, k, K)) * x[k] + MatvecQ4Row(qw, x, m, K, k + 1)

\* A matvec that forgets the per-row scale (y[m] = sum).
matvec_q4_unscaled(qw, sc, x, M, K) ==
    [m \in 0..(M - 1) |-> MatvecQ4Row(qw, x, m, K, 0)]

matvec_q4_rowwise(qw, sc, x, M, K) ==
    [m \in 0..(M - 1) |-> sc[m] * MatvecQ4Row(qw, x, m, K, 0)]

\* matvec_q4_avx2 works on blocks of BLOCK_SIZE rows; a __m256 holds
\* Avx2Lanes floats.
BLOCK_SIZE == 8

Avx2Lanes == 8

\* (nib & 8) ? static_cast<float>(nib - 16) : static_cast<float>(nib)
Avx2Dequant(nib) == IF (nib \div 8) % 2 = 1 THEN nib - 16 ELSE nib

\* The k loop of matvec_q4_avx2 for row mm: sum_vec[mm - m] starts at zero
\* and each k adds dequant_val * x[k], both broadcast, in every lane.
RECURSIVE Avx2SumVec(_, _, _, _, _)
Avx2SumVec(qw, x, mm, K, k) ==
    IF k >= K THEN [lane \in 0..(Avx2Lanes - 1) |-> 0]
    ELSE LET rest == Avx2SumVec(qw, x, mm, K, k + 1)
         IN [lane \in 0..(Avx2Lanes - 1) |->
                Avx2Dequant(ReadNibble(qw, mm, k, K)) * x[k] + rest[lane]]

\* The store loop: total_sum += sum_ptr[i] for i = 0..7.
RECURSIVE Avx2TotalSum(_, _)
Avx2TotalSum(sum_vec, i) ==
    IF i >= 8 THEN 0 ELSE sum_vec[i] + Avx2TotalSum(sum_vec, i + 1)

\* The rows the blocks m = 0, 8, 16, ... store: m .. min(m + BLOCK_SIZE, M) - 1.
Avx2Rows(M) ==
    UNION {(b * BLOCK_SIZE)..(Min(b * BLOCK_SIZE + BLOCK_SIZE, M) - 1) :
              b \in 0..((M - 1) \div BLOCK_SIZE)}

matvec_q4_avx2(qw, sc, x, M, K) ==
    [mm \in Avx2Rows(M) |-> sc[mm] * Avx2TotalSum(Avx2SumVec(qw, x, mm, K, 0), 0)]

\* The fallback loop of GemmRef::matvec: y[m] = alpha * sum_k A[m*K+k]*x[k] + beta*y[m].
RECURSIVE MatvecRow(_, _, _, _, _)
MatvecRow(A, x, m, K, k) ==
    IF k >= K THEN 0 ELSE A[m * K + k] * x[k] + MatvecRow(A, x, m, K, k + 1)

\* A matvec that overwrites y whatever beta is.
GemmRef_matvec_overwriting(A, x, y, M, K, al, be) ==
    [m \in 0..(M - 1) |-> al * MatvecRow(A, x, m, K, 0)]

GemmRef_matvec(A, x, y, M, K, al, be) ==
    [m \in 0..(M - 1) |-> al * MatvecRow(A, x, m, K, 0) + be * y[m]]

\* ---- the inputs the Q4 specification draws ----

\* Weights: the ramp of the unit test (i - 3) with one element replaced.
WeightVals == {-200, -129, -17, -9, -8, -1, 1, 7, 8, 15, 128, 200}

Q4Weights(M, K, p, v) == [i \in 0..(M * K - 1) |-> IF i = p THEN v ELSE i - 3]

\* Scales: positive, rotated over 1..MaxScale row by row.
Q4Scales(M, r) == [m \in 0..(M - 1) |-> ((m + r) % MaxScale) + 1]

\* A packed buffer that did not come from pack_q4_rowwise.
Q4Bytes(M, K, b0, step) ==
    [j \in 0..(((M * K + 1) \div 2) - 1) |-> (b0 + j * step) % 256]

Q4Start ==
    /\ qM \in 1..MaxQM
    /\ qK \in 1..MaxQK
    /\ \E p \in 0..(qM * qK - 1), v \in WeightVals : weights = Q4Weights(qM, qK, p, v)
    /\ \E r \in 0..(MaxScale - 1) : scales = Q4Scales(qM, r)
    /\ \E x0 \in {1, -2} : qx = [k \in 0..(qK - 1) |-> x0 + k]
    /\ castMode \in {"wrap", "saturate"}
    /\ \E b0 \in {0, 127, 248}, step \in {17, 53} : qweights = Q4Bytes(qM, qK, b0, step)
    /\ qpacked = FALSE
    /\ qout = <<>>
    /\ qy = <<>>
    /\ qyAvx = <<>>

\* pack_q4_rowwise(weights, scales, qweights, scales_out, M, K).  The caller
\* packs before it reads, so that qout and qy describe the buffer as it is.
PackQ4 ==
    /\ ~qpacked
    /\ qout = <<>> /\ qy = <<>> /\ qyAvx = <<>>
    /\ qweights' = pack_q4_rowwise(qweights, weights, scales, qM, qK, castMode)
    /\ qpacked' = TRUE
    /\ UNCHANGED <<qM, qK, weights, scales, qx, castMode, qout, qy, qyAvx, notQ4>>

\* dequantize_q4_rowwise(qweights, scales, out, M, K)
DequantizeQ4 ==
    /\ qout = <<>>
    /\ qout' = dequantize_q4_rowwise(qweights, scales, qM, qK)
    /\ UNCHANGED <<qM, qK, weights, scales, qx, castMode, qweights, qpacked, qy, qyAvx, notQ4>>

\* matvec_q4_rowwise(qweights, scales, x, y, M, K)
MatvecQ4 ==
    /\ qy = <<>>
    /\ qy' = matvec_q4_rowwise(qweights, scales, qx, qM, qK)
    /\ UNCHANGED <<qM, qK, weights, scales, qx, castMode, qweights, qpacked, qout,
                   qyAvx, notQ4>>

\* The codec before any call, on a 1 x 1 matrix: the state of the codec in
\* the specifications of the other components.
Q4Idle ==
    /\ qM = 1 /\ qK = 1
    /\ weights = Q4Weights(1, 1, 0, 1)
    /\ scales = Q4Scales(1, 0)
    /\ qx = [k \in 0..0 |-> 1]
    /\ castMode = "wrap"
    /\ qweights = Q4Bytes(1, 1, 0, 17)
    /\ qpacked = FALSE
    /\ qout = <<>>
    /\ qy = <<>>
    /\ qyAvx = <<>>

\* simd::matvec_q4_avx2(qweights, scales, x, y, M, K)
MatvecQ4Avx2 ==
    /\ qyAvx = <<>>
    /\ qyAvx' = matvec_q4_avx2(qweights, scales, qx, qM, qK)
    /\ UNCHANGED <<qM, qK, weights, scales, qx, castMode, qweights, qpacked, qout,
                   qy, notQ4>>

Q4Next == PackQ4 \/ DequantizeQ4 \/ MatvecQ4 \/ MatvecQ4Avx2

(***************************************************************************)
(* GEMM: the reference kernel and the vectorised kernels.                  *)
(***************************************************************************)

\* Vector widths: BLOCK_SIZE of matmul_avx2_f32 and of matmul_avx512_f32.
AVX2_BLOCK_SIZE == 8
AVX512_BLOCK_SIZE == 16

\* sum over k in k0..k1-1 of A[m*K+k] * B[k*N+n]: the innermost loop of
\* simple_matmul, and the scalar remainder loop of the vectorised kernels.
RECURSIVE DotColumn(_, _, _, _, _, _, _, _)
DotColumn(A, B, m, n, K, N, k0, k1) ==
    IF k0 >= k1 THEN 0
    ELSE A[m * K + k0] * B[k0 * N + n] + DotColumn(A, B, m, n, K, N, k0 + 1, k1)

\* One store of simple_matmul: C[m*N+n] = alpha * sum + beta * C[m*N+n].
SimpleStore(st, A, B, K, N, al, be, m, n) ==
    [C |-> [st.C EXCEPT ![m * N + n] =
                al * DotColumn(A, B, m, n, K, N, 0, K) + be * st.C[m * N + n]],
     W |-> [st.W EXCEPT ![m * N + n] = @ + 1]]

\* The m and n loops of simple_matmul from (m,n) on; st.C is the buffer and
\* st.W counts the stores into each element.
RECURSIVE SimpleLoop(_, _, _, _, _, _, _, _, _, _)
SimpleLoop(st, A, B, M, K, N, al, be, m, n) ==
    IF m >= M THEN st
    ELSE IF n >= N THEN SimpleLoop(st, A, B, M, K, N, al, be, m + 1, 0)
    ELSE SimpleLoop(SimpleStore(st, A, B, K, N, al, be, m, n),
                    A, B, M, K, N, al, be, m, n + 1)

ZeroWrites(M, N) == [i \in 0..(M * N - 1) |-> 0]

\* A reference kernel that accumulates into C whatever beta is.
simple_matmul_accumulating(A, B, C, M, K, N, al, be) ==
    SimpleLoop([C |-> C, W |-> ZeroWrites(M, N)], A, B, M, K, N, al, 1, 0, 0)

simple_matmul(A, B, C, M, K, N, al, be) ==
    SimpleLoop([C |-> C, W |-> ZeroWrites(M, N)], A, B, M, K, N, al, be, 0, 0)

\* The vector lanes of one chunk: lane i multiplies A[mm*K + kk + i] by
\* B[kk*N + nn + i] (two contiguous loads), and the lanes are summed.
RECURSIVE LaneSum(_, _, _, _, _, _, _, _, _)
LaneSum(A, B, mm, nn, K, N, kk, i, width) ==
    IF i >= width THEN 0
    ELSE A[mm * K + kk + i] * B[kk * N + nn + i]
         + LaneSum(A, B, mm, nn, K, N, kk, i + 1, width)

\* total_sum of element (mm,nn) in the k-block that starts at k: the chunk
\* loop runs once when a whole chunk fits below k_end, the scalar loop
\* finishes the block.
BlockTotal(A, B, mm, nn, K, N, k, width) ==
    LET k_end == Min(k + width, K)
        whole == k + width <= k_end
        vec == IF whole THEN LaneSum(A, B, mm, nn, K, N, k, 0, width) ELSE 0
        kk == IF whole THEN k + width ELSE k
    IN DotColumn(A, B, mm, nn, K, N, kk, k_end) + vec

\* The k-block loop as element (mm,nn) sees it: every block stores
\* C[mm*N+nn] = alpha * total_sum + beta * C[mm*N+nn].
RECURSIVE BlockLoop(_, _, _, _, _, _, _, _, _, _, _)
BlockLoop(st, A, B, mm, nn, K, N, al, be, k, width) ==
    IF k >= K THEN st
    ELSE BlockLoop([c |-> al * BlockTotal(A, B, mm, nn, K, N, k, width) + be * st.c,
                    w |-> st.w + 1],
                   A, B, mm, nn, K, N, al, be, k + width, width)

\* matmul_avx2_f32 / matmul_avx512_f32 for vector width `width`.  The stores
\* into one element of C read nothing but that element, A and B, so each
\* element is computed by its own pass over the k-blocks.
matmul_blocked(A, B, C, M, K, N, al, be, width) ==
    LET E(i) == BlockLoop([c |-> C[i], w |-> 0], A, B, i \div N, i % N,
                          K, N, al, be, 0, width)
    IN [C |-> [i \in 0..(M * N - 1) |-> E(i).c],
        W |-> [i \in 0..(M * N - 1) |-> E(i).w]]

matmul_avx2_f32(A, B, C, M, K, N, al, be) ==
    matmul_blocked(A, B, C, M, K, N, al, be, AVX2_BLOCK_SIZE)

matmul_avx512_f32(A, B, C, M, K, N, al, be) ==
    matmul_blocked(A, B, C, M, K, N, al, be, AVX512_BLOCK_SIZE)

\* ---- the inputs the GEMM specification draws ----
GemmA(M, K, o) == [i \in 0..(M * K - 1) |-> ((i + o) % 5) - 2]

GemmB(K, N, o) == [i \in 0..(K * N - 1) |-> (i + o) % 3]

GemmC(M, N, o) == [i \in 0..(M * N - 1) |-> ((i + o) % 3) - 1]

GemmStart ==
    /\ gM \in 1..MaxGM
    /\ gN \in 1..MaxGN
    /\ gK \in 1..MaxGK
    /\ \E o \in 0..2 : gA = GemmA(gM, gK, o)
    /\ \E o \in 0..1 : gB = GemmB(gK, gN, o)
    /\ \E o \in 0..1 : gC = GemmC(gM, gN, o)
    /\ alpha \in {-1, 1, 2}
    /\ beta \in {0, 1, 2}
    /\ gKernel = "none"
    /\ gWrites = ZeroWrites(gM, gN)

GemmIdle ==
    /\ gM = 1 /\ gN = 1 /\ gK = 1
    /\ gA = GemmA(1, 1, 0)
    /\ gB = GemmB(1, 1, 0)
    /\ gC = GemmC(1, 1, 0)
    /\ alpha = 1
    /\ beta = 0
    /\ gKernel = "none"
    /\ gWrites = ZeroWrites(1, 1)

\* GemmRef::matmul(A, B, C, alpha, beta) on well-shaped tensors.
MatmulRef ==
    /\ gKernel = "none"
    /\ LET r == simple_matmul(gA, gB, gC, gM, gK, gN, alpha, beta)
       IN gC' = r.C /\ gWrites' = r.W
    /\ gKernel' = "ref"
    /\ UNCHANGED <<gM, gK, gN, gA, gB, alpha, beta, notGemm>>

\* simd::matmul_avx2_f32(A, B, C, M, K, N, alpha, beta)
MatmulAvx2 ==
    /\ gKernel = "none"
    /\ LET r == matmul_avx2_f32(gA, gB, gC, gM, gK, gN, alpha, beta)
       IN gC' = r.C /\ gWrites' = r.W
    /\ gKernel' = "avx2"
    /\ UNCHANGED <<gM, gK, gN, gA, gB, alpha, beta, notGemm>>

\* simd::matmul_avx512_f32(A, B, C, M, K, N, alpha, beta)
MatmulAvx512 ==
    /\ gKernel = "none"
    /\ LET r == matmul_avx512_f32(gA, gB, gC, gM, gK, gN, alpha, beta)
       IN gC' = r.C /\ gWrites' = r.W
    /\ gKernel' = "avx512"
    /\ UNCHANGED <<gM, gK, gN, gA, gB, alpha, beta, notGemm>>

GemmNext == MatmulRef \/ MatmulAvx2 \/ MatmulAvx512

(***************************************************************************)
(* TensorPool and AlignedAllocator.                                        *)
(***************************************************************************)
NULL == 0

\* AlignedAllocator::allocate(size): nullptr for size 0, else a fresh buffer.
AlignedAllocate(size, addr) == IF size = 0 THEN NULL ELSE addr

\* The buffers known after AlignedAllocator::allocate(size) returned `data`.
WithBuffer(bufs, data, size) ==
    IF data = NULL THEN bufs ELSE bufs \cup {[base |-> data, size |-> size]}

\* The first-fit loop of TensorPool::allocate from chunk i on: the index of
\* the first chunk with size >= request and a non-null data, 0 if none.
RECURSIVE FirstFit(_, _, _)
FirstFit(ch, size, i) ==
    IF i > Len(ch) THEN 0
    ELSE IF ch[i].size >= size /\ ch[i].data # NULL THEN i
    ELSE FirstFit(ch, size, i + 1)

\* TakeChunk without the split: the whole chunk goes with the request.
TakeChunk_whole(ch, i, size) ==
    SubSeq(ch, 1, i - 1) \o <<[data |-> NULL, size |-> 0]>> \o SubSeq(ch, i + 1, Len(ch))

\* TakeChunk with a remainder that starts where the chunk started.
TakeChunk_overlapping(ch, i, size) ==
    LET cur == ch[i]
        remainder == [data |-> cur.data, size |-> cur.size - size]
        taken == [data |-> NULL, size |-> 0]
    IN SubSeq(ch, 1, i - 1)
       \o (IF cur.size > size THEN <<taken, remainder>> ELSE <<taken>>)
       \o SubSeq(ch, i + 1, Len(ch))

\* The chunk list after chunk i served `size` bytes: a larger chunk gets a
\* remainder chunk linked after it, and the chunk itself is emptied.
TakeChunk(ch, i, size) ==
    LET cur == ch[i]
        remainder == [data |-> cur.data + size, size |-> cur.size - size]
        taken == [data |-> NULL, size |-> 0]
    IN SubSeq(ch, 1, i - 1)
       \o (IF cur.size > size THEN <<taken, remainder>> ELSE <<taken>>)
       \o SubSeq(ch, i + 1, Len(ch))

\* new_size = std::max(size, total_allocated_ / 2)
GrowSize(size, total) == Max(size, total \div 2)

\* TensorPool::reset(): the loop over the chunk list.
ResetChunks(ch) == [i \in 1..Len(ch) |-> [data |-> NULL, size |-> 0]]

\* The loop of the destructor over the chunk list: the pointers that reach
\* free().  AlignedAllocator::deallocate returns at once on nullptr.
DeallocateAll(ch) == SelectSeq([i \in 1..Len(ch) |-> ch[i].data], LAMBDA ptr : ptr # NULL)

PoolStart ==
    \E initial_size \in 0..MaxInitialSize :
        /\ nextAddr = 1 + initial_size + 1
        /\ chunks = <<[data |-> AlignedAllocate(initial_size, 1), size |-> initial_size]>>
        /\ poolBuffers = WithBuffer({}, AlignedAllocate(initial_size, 1), initial_size)
        /\ total_allocated_ = initial_size
        /\ total_used_ = 0
        /\ poolLastOp = "ctor"
        /\ poolReq = 0
        /\ poolResult = NULL
        /\ poolRegions = <<>>
        /\ poolFreed = <<>>

PoolIdle ==
    /\ nextAddr = 1
    /\ chunks = <<[data |-> NULL, size |-> 0]>>
    /\ poolBuffers = {}
    /\ total_allocated_ = 0
    /\ total_used_ = 0
    /\ poolLastOp = "ctor"
    /\ poolReq = 0
    /\ poolResult = NULL
    /\ poolRegions = <<>>
    /\ poolFreed = <<>>

\* TensorPool::allocate(size) served by a chunk of the list.
AllocateFit ==
    \E size \in 0..MaxRequest :
    LET i == FirstFit(chunks, size, 1)
    IN /\ poolLastOp \notin {"overflow", "dtor"}
       /\ i # 0
       /\ Len(chunks) < MaxChunks
       /\ poolResult' = chunks[i].data
       /\ chunks' = TakeChunk(chunks, i, size)
       /\ total_used_' = total_used_ + size
       /\ poolLastOp' = "alloc"
       /\ poolReq' = size
       /\ poolRegions' = Append(poolRegions, [base |-> chunks[i].data, size |-> size])
       /\ UNCHANGED <<total_allocated_, poolBuffers, nextAddr, poolFreed, notPool>>

\* TensorPool::allocate(size) when no chunk fits: a new chunk is linked at
\* the head and the recursive call is served by it.
AllocateGrow ==
    \E size \in 0..MaxRequest :
    LET new_size == GrowSize(size, total_allocated_)
        data == AlignedAllocate(new_size, nextAddr)
        grown == <<[data |-> data, size |-> new_size]>> \o chunks
    IN /\ poolLastOp \notin {"overflow", "dtor"}
       /\ FirstFit(chunks, size, 1) = 0
       /\ data # NULL
       /\ Len(chunks) + 1 < MaxChunks
       /\ total_allocated_ + new_size <= MaxPoolBytes
       /\ poolResult' = data
       /\ chunks' = TakeChunk(grown, 1, size)
       /\ total_allocated_' = total_allocated_ + new_size
       /\ total_used_' = total_used_ + size
       /\ poolBuffers' = WithBuffer(poolBuffers, data, new_size)
       /\ nextAddr' = nextAddr + new_size + 1
       /\ poolLastOp' = "alloc"
       /\ poolReq' = size
       /\ poolRegions' = Append(poolRegions, [base |-> data, size |-> size])
       /\ UNCHANGED <<poolFreed, notPool>>

\* TensorPool::allocate(size) when no chunk fits and the new chunk is empty
\* (new_size = 0, data = nullptr): the recursive call finds no chunk either
\* and recurses again, without end.
AllocateOverflow ==
    \E size \in 0..MaxRequest :
    /\ poolLastOp \notin {"overflow", "dtor"}
    /\ FirstFit(chunks, size, 1) = 0
    /\ AlignedAllocate(GrowSize(size, total_allocated_), nextAddr) = NULL
    /\ poolLastOp' = "overflow"
    /\ poolReq' = size
    /\ UNCHANGED <<chunks, total_allocated_, total_used_, poolBuffers, nextAddr,
                   poolResult, poolRegions, poolFreed, notPool>>

\* TensorPool::reset()
PoolReset ==
    /\ poolLastOp \notin {"overflow", "dtor"}
    /\ chunks' = ResetChunks(chunks)
    /\ total_used_' = 0
    /\ poolLastOp' = "reset"
    /\ poolRegions' = <<>>
    /\ UNCHANGED <<total_allocated_, poolBuffers, nextAddr, poolReq, poolResult,
                   poolFreed, notPool>>

\* TensorPool::~TensorPool(): reset(), then the loop that hands the data of
\* each chunk to AlignedAllocator::deallocate and deletes the chunk.
PoolDestroy ==
    /\ poolLastOp \notin {"overflow", "dtor"}
    /\ poolFreed' = DeallocateAll(ResetChunks(chunks))
    /\ chunks' = <<>>
    /\ total_used_' = 0
    /\ poolRegions' = <<>>
    /\ poolLastOp' = "dtor"
    /\ UNCHANGED <<total_allocated_, poolBuffers, nextAddr, poolReq, poolResult, notPool>>

PoolNext == AllocateFit \/ AllocateGrow \/ AllocateOverflow \/ PoolReset \/ PoolDestroy

(***************************************************************************)
(* FlashAttention.                                                         *)
(***************************************************************************)

\* std::exp on a score difference d <= 0, in fixed point: ExpTable[1 - d] is
\* 1000 * e^d rounded, and 0 beyond the table.
ExpTable == <<1000, 368, 135, 50, 18, 7, 2, 1>>

ExpFix(d) == IF -d < Len(ExpTable) THEN ExpTable[1 - d] ELSE 0

\* 1.0 in the fixed point of the softmax weights.
AttnOne == ExpTable[1]

\* scale_: the default of the constructor.
AttnScale == 1

\* The last key position the loops of compute_attention visit for query
\* position s: for (t = 0; t <= s; ++t).
CausalEndAll(s, seq_len) == seq_len - 1

CausalEnd(s, seq_len) == s

\* score of query position s against key position t: the dot product over
\* head_dim, times scale_.
RECURSIVE DotQK(_, _, _, _, _, _, _, _)
DotQK(Q, K, b, s, t, seq_len, head_dim, d) ==
    IF d >= head_dim THEN 0
    ELSE Q[b * seq_len * head_dim + s * head_dim + d]
           * K[b * seq_len * head_dim + t * head_dim + d]
         + DotQK(Q, K, b, s, t, seq_len, head_dim, d + 1)

Score(Q, K, b, s, t, seq_len, head_dim) ==
    DotQK(Q, K, b, s, t, seq_len, head_dim, 0) * AttnScale

\* max_score after the score loop: the largest of scores[0..last]
\* (max_score starts at -infinity and last >= 0).
RECURSIVE MaxScore(_, _)
MaxScore(sc, last) ==
    IF last = 0 THEN sc[0] ELSE Max(MaxScore(sc, last - 1), sc[last])

\* sum over t in 0..last of f[t].
RECURSIVE SumTo(_, _)
SumTo(f, last) == IF last < 0 THEN 0 ELSE SumTo(f, last - 1) + f[last]

\* Softmax weights that are left as the exponentials, not divided by their sum.
SoftmaxWeightsRaw(Q, K, b, s, seq_len, head_dim, last) ==
    LET scores == [t \in 0..last |-> Score(Q, K, b, s, t, seq_len, head_dim)]
        max_score == MaxScore(scores, last)
    IN [t \in 0..last |-> ExpFix(scores[t] - max_score)]

\* The normalised softmax weights of query position (b,s) over t in 0..last.
SoftmaxWeights(Q, K, b, s, seq_len, head_dim, last) ==
    LET scores == [t \in 0..last |-> Score(Q, K, b, s, t, seq_len, head_dim)]
        max_score == MaxScore(scores, last)
        exps == [t \in 0..last |-> ExpFix(scores[t] - max_score)]
        sum_exp == SumTo(exps, last)
    IN [t \in 0..last |->
           IF sum_exp > 0 THEN (exps[t] * AttnOne) \div sum_exp ELSE exps[t]]

\* compute_attention(Q, K, V, output, cache) on [batch, seq_len, head_dim]
\* tensors: the output tensor (in units of 1/AttnOne).
compute_attention(Q, K, V, batch_size, seq_len, head_dim) ==
    LET W == [r \in 0..(batch_size * seq_len - 1) |->
                 SoftmaxWeights(Q, K, r \div seq_len, r % seq_len, seq_len, head_dim,
                                CausalEnd(r % seq_len, seq_len))]
    IN [i \in 0..(batch_size * seq_len * head_dim - 1) |->
           LET b == i \div (seq_len * head_dim)
               s == (i % (seq_len * head_dim)) \div head_dim
               d == i % head_dim
               last == CausalEnd(s, seq_len)
               w == W[b * seq_len + s]
           IN SumTo([t \in 0..last |->
                        w[t] * V[b * seq_len * head_dim + t * head_dim + d]], last)]

\* The head extraction of forward: Q_head[dst_idx] = q_data[src_idx] where
\* both indices are in range; the head tensors start zero-filled.
ExtractHead(x, batch_size, seq_len, hidden_size, head, head_dim) ==
    [dst_idx \in 0..(batch_size * seq_len * head_dim - 1) |->
        LET b == dst_idx \div (seq_len * head_dim)
            s == (dst_idx % (seq_len * head_dim)) \div head_dim
            d == dst_idx % head_dim
            src_idx == b * seq_len * hidden_size + s * hidden_size + head * head_dim + d
        IN IF src_idx < batch_size * seq_len * hidden_size THEN x[src_idx] ELSE 0]

\* FlashAttention::forward on three [batch, seq_len, hidden] tensors: every
\* head is extracted, attended, and copied back into its columns of the
\* zero-filled output.
forward(q, k, v, batch_size, seq_len, hidden_size, num_heads, head_dim) ==
    LET head_output == [head \in 0..(num_heads - 1) |->
            compute_attention(
                ExtractHead(q, batch_size, seq_len, hidden_size, head, head_dim),
                ExtractHead(k, batch_size, seq_len, hidden_size, head, head_dim),
                ExtractHead(v, batch_size, seq_len, hidden_size, head, head_dim),
                batch_size, seq_len, head_dim)]
    IN [dst_idx \in 0..(batch_size * seq_len * hidden_size - 1) |->
           LET b == dst_idx \div (seq_len * hidden_size)
               s == (dst_idx % (seq_len * hidden_size)) \div hidden_size
               c == dst_idx % hidden_size
           IN IF c < num_heads * head_dim
              THEN head_output[c \div head_dim][b * seq_len * head_dim
                                                + s * head_dim + (c % head_dim)]
              ELSE 0]

\* The KVCache after forward(query, key, value, cache): neither forward nor
\* compute_attention reads or writes the cache they are handed.
CacheAfterForward(cache, k, v, n) == cache

\* ---- the inputs the attention specification draws ----

\* The [batch, n, hidden] tensor of the n positions lo..lo+n-1 of x.
SlicePositions(x, batch_size, seq_len, hidden_size, lo, n) ==
    [i \in 0..(batch_size * n * hidden_size - 1) |->
        LET b == i \div (n * hidden_size)
            s == (i % (n * hidden_size)) \div hidden_size
            c == i % hidden_size
        IN x[b * seq_len * hidden_size + (lo + s) * hidden_size + c]]

AttnTensor(batch_size, seq_len, hidden_size, o, modulus) ==
    [i \in 0..(batch_size * seq_len * hidden_size - 1) |-> ((i + o) % modulus) - 1]

\* x with every entry at a position t > cut changed.
AlterAfter(x, seq_len, hidden_size, cut) ==
    [i \in DOMAIN x |->
        IF (i % (seq_len * hidden_size)) \div hidden_size > cut
        THEN x[i] + 1 + (i % 2) ELSE x[i]]

EmptyCache == [keys |-> <<>>, values |-> <<>>, current_length |-> 0]

AttnStart ==
    /\ aB \in 1..MaxBatch
    /\ aS \in 1..MaxSeq
    /\ aH \in 1..MaxHeads
    /\ aD \in 1..MaxHeadDim
    /\ aQ = AttnTensor(aB, aS, aH * aD, 1, 3)
    /\ \E o \in 0..1 : /\ aK = AttnTensor(aB, aS, aH * aD, o, 4)
                        /\ aV = AttnTensor(aB, aS, aH * aD, o + 1, 5)
    /\ aCut = aS - 1
    /\ aK2 = aK
    /\ aV2 = aV
    /\ aCache = EmptyCache
    /\ aFed = 0
    /\ aSlices = <<>>
    /\ aOutInc = <<>>
    /\ aOutFull = <<>>
    /\ aOutFull2 = <<>>

AttnIdle ==
    /\ aB = 1 /\ aS = 1 /\ aH = 1 /\ aD = 1
    /\ aQ = AttnTensor(1, 1, 1, 1, 3)
    /\ aK = AttnTensor(1, 1, 1, 0, 4)
    /\ aV = AttnTensor(1, 1, 1, 0, 5)
    /\ aCut = 0
    /\ aK2 = AttnTensor(1, 1, 1, 0, 4)
    /\ aV2 = AttnTensor(1, 1, 1, 0, 5)
    /\ aCache = EmptyCache
    /\ aFed = 0
    /\ aSlices = <<>>
    /\ aOutInc = <<>>
    /\ aOutFull = <<>>
    /\ aOutFull2 = <<>>

\* forward(query, key, value, nullptr) over the whole sequence.
ForwardFull ==
    /\ aOutFull = <<>>
    /\ aOutFull' = forward(aQ, aK, aV, aB, aS, aH * aD, aH, aD)
    /\ UNCHANGED <<aB, aS, aH, aD, aQ, aK, aV, aCut, aK2, aV2, aCache, aFed, aSlices,
                   aOutInc, aOutFull2, notAttn>>

\* forward(query, key2, value2, nullptr) over the whole sequence, where key2
\* and value2 are key and value altered at every position after `cut`.  A
\* caller either compares two uncached passes or decodes through the cache.
ForwardAltered ==
    \E cut \in 0..(aS - 1) :
        /\ aOutFull2 = <<>>
        /\ aFed = 0
        /\ aCut' = cut
        /\ aK2' = AlterAfter(aK, aS, aH * aD, cut)
        /\ aV2' = AlterAfter(aV, aS, aH * aD, cut)
        /\ aOutFull2' = forward(aQ, aK2', aV2', aB, aS, aH * aD, aH, aD)
        /\ UNCHANGED <<aB, aS, aH, aD, aQ, aK, aV, aCache, aFed, aSlices,
                       aOutInc, aOutFull, notAttn>>

\* forward(query, key, value, &cache) on the next n positions of the sequence.
ForwardCached ==
    \E n \in 1..(aS - aFed) :
        LET q == SlicePositions(aQ, aB, aS, aH * aD, aFed, n)
            k == SlicePositions(aK, aB, aS, aH * aD, aFed, n)
            v == SlicePositions(aV, aB, aS, aH * aD, aFed, n)
        IN /\ aOutFull2 = <<>>
           /\ aOutInc' = Append(aOutInc, forward(q, k, v, aB, n, aH * aD, aH, aD))
           /\ aCache' = CacheAfterForward(aCache, k, v, n)
           /\ aFed' = aFed + n
           /\ aSlices' = Append(aSlices, n)
           /\ UNCHANGED <<aB, aS, aH, aD, aQ, aK, aV, aCut, aK2, aV2, aOutFull,
                          aOutFull2, notAttn>>

AttnNext == ForwardFull \/ ForwardAltered \/ ForwardCached

(***************************************************************************)
(* BatchProcessor: the request queue, start/stop and the processing loop.  *)
(* submit_request runs under queue_mutex_ and is one step; start() and     *)
(* stop() take no lock and are split at their reads and writes of running_ *)
(* and processing_thread_; the processing loop is split where it takes and *)
(* releases the mutex.                                                     *)
(***************************************************************************)
\* The processing threads start() can create: two, so that two calls of
\* start() can each create one.
Threads == {1, 2}

Requests == 1..MaxSubmits

\* The client threads: both call start(), the first one also calls stop().
Starters == {"c1", "c2"}

Stoppers == {"c1"}

\* A queue that never reports full.
QueueNeverFull(q, cap) == FALSE

\* request_queue_.size() >= queue_size_
QueueFull(q, cap) == Len(q) >= cap

\* The requests submit_request has accepted so far.
Accepted == {r \in Requests : promise[r] # "none"}

\* queue_cv_.notify_one(): one of the threads blocked in wait() is made to
\* take the mutex again and re-evaluate its predicate.
NotifyOne(pc) ==
    LET blocked == {t \in Threads : pc[t] = "blocked"}
    IN IF blocked = {} THEN {pc}
       ELSE {[pc EXCEPT ![t] = "lock"] : t \in blocked}

\* queue_cv_.notify_all()
NotifyAll(pc) == [t \in Threads |-> IF pc[t] = "blocked" THEN "lock" ELSE pc[t]]

\* std::thread::joinable() of the thread the unique_ptr holds.
Joinable(t) == t # 0 /\ t \notin joined

\* The inner loop of processing_loop: the number of requests moved from the
\* queue into the batch.
BatchCount(q, max_batch) == Min(Len(q), max_batch)

\* What process_batch returns for one request: the generated tokens, or the
\* request's input tokens when its inference threw.
BatchResultOf(r, failing) == IF r \in failing THEN "echo" ELSE "generated"

\* The requests of a batch.
InBatch(batch) == {batch[i] : i \in 1..Len(batch)}

\* The promises after the processing loop handled `batch`: set_value of each
\* result, or set_exception for the whole batch when process_batch threw.
Fulfil(pr, batch, failing, escapes) ==
    [r \in Requests |->
        IF r \in InBatch(batch)
        THEN (IF escapes THEN "exception" ELSE BatchResultOf(r, failing))
        ELSE pr[r]]

BatchStart ==
    /\ max_batch_size_ \in 1..MaxBatchSize
    /\ queue_size_ \in 1..MaxQueueSize
    /\ request_queue_ = <<>>
    /\ running_ = FALSE
    /\ processing_thread_ = 0
    /\ queue_mutex_ = 0
    /\ loopPc = [t \in Threads |-> "unborn"]
    /\ loopBatch = [t \in Threads |-> <<>>]
    /\ joined = {}
    /\ callerPc = [c \in Starters |-> "idle"]
    /\ callerThread = [c \in Starters |-> 0]
    /\ promise = [r \in Requests |-> "none"]
    /\ inferenceFails = [r \in Requests |-> FALSE]
    /\ setCount = [r \in Requests |-> 0]
    /\ submitResult = "none"
    /\ terminated = FALSE

BatchIdle ==
    /\ max_batch_size_ = 1
    /\ queue_size_ = 1
    /\ request_queue_ = <<>>
    /\ running_ = FALSE
    /\ processing_thread_ = 0
    /\ queue_mutex_ = 0
    /\ loopPc = [t \in Threads |-> "unborn"]
    /\ loopBatch = [t \in Threads |-> <<>>]
    /\ joined = {}
    /\ callerPc = [c \in Starters |-> "idle"]
    /\ callerThread = [c \in Starters |-> 0]
    /\ promise = [r \in Requests |-> "none"]
    /\ inferenceFails = [r \in Requests |-> FALSE]
    /\ setCount = [r \in Requests |-> 0]
    /\ submitResult = "none"
    /\ terminated = FALSE

\* submit_request(request) when the queue has room: push, notify_one, and
\* the future of the request's promise is returned.
SubmitAccepted ==
    LET r == Cardinality(Accepted) + 1
    IN /\ ~terminated
       /\ queue_mutex_ = 0
       /\ ~QueueFull(request_queue_, queue_size_)
       /\ r \in Requests
       /\ request_queue_' = Append(request_queue_, r)
       /\ promise' = [promise EXCEPT ![r] = "pending"]
       /\ loopPc' \in NotifyOne(loopPc)
       /\ submitResult' = "accepted"
       /\ UNCHANGED <<max_batch_size_, queue_size_, running_, processing_thread_,
                      queue_mutex_, loopBatch, joined, callerPc, callerThread,
                      inferenceFails, setCount, terminated, notBatch>>

\* submit_request(request) when the queue is full: throws.
SubmitRejected ==
    /\ ~terminated
    /\ queue_mutex_ = 0
    /\ QueueFull(request_queue_, queue_size_)
    /\ submitResult' = "full"
    /\ UNCHANGED <<max_batch_size_, queue_size_, request_queue_, running_,
                   processing_thread_, queue_mutex_, loopPc, loopBatch, joined,
                   callerPc, callerThread, promise, inferenceFails, setCount,
                   terminated, notBatch>>

\* start(): if (running_) return;  A call that returns here changes nothing.
StartCheck(c) ==
    /\ ~terminated
    /\ callerPc[c] = "idle"
    /\ ~running_
    /\ \E t \in Threads : loopPc[t] = "unborn"
    /\ callerPc' = [callerPc EXCEPT ![c] = "start_spawn"]
    /\ UNCHANGED <<max_batch_size_, queue_size_, request_queue_, running_,
                   processing_thread_, queue_mutex_, loopPc, loopBatch, joined,
                   callerThread, promise, inferenceFails, setCount, submitResult,
                   terminated, notBatch>>

\* start(): running_ = true; std::make_unique<std::thread>(processing_loop).
StartSpawn(c) ==
    /\ ~terminated
    /\ callerPc[c] = "start_spawn"
    /\ \E t \in Threads :
          /\ loopPc[t] = "unborn"
          /\ \A u \in Threads : u < t => loopPc[u] # "unborn"
          /\ loopPc' = [loopPc EXCEPT ![t] = "while"]
          /\ callerThread' = [callerThread EXCEPT ![c] = t]
    /\ running_' = TRUE
    /\ callerPc' = [callerPc EXCEPT ![c] = "start_assign"]
    /\ UNCHANGED <<max_batch_size_, queue_size_, request_queue_, processing_thread_,
                   queue_mutex_, loopBatch, joined, promise, inferenceFails,
                   setCount, submitResult, terminated, notBatch>>

\* start(): processing_thread_ = <the new thread>.  When the unique_ptr held
\* a joinable thread, the assignment raced with the start() that stored it:
\* either the old handle is lost, or (StartTerminate) it is destroyed.
StartAssign(c) ==
    /\ ~terminated
    /\ callerPc[c] = "start_assign"
    /\ processing_thread_' = callerThread[c]
    /\ callerPc' = [callerPc EXCEPT ![c] = "idle"]
    /\ callerThread' = [callerThread EXCEPT ![c] = 0]
    /\ UNCHANGED <<max_batch_size_, queue_size_, request_queue_, running_,
                   queue_mutex_, loopPc, loopBatch, joined, promise, inferenceFails,
                   setCount, submitResult, terminated, notBatch>>

\* start(): the assignment destroys a joinable std::thread: std::terminate.
StartTerminate(c) ==
    /\ ~terminated
    /\ callerPc[c] = "start_assign"
    /\ Joinable(processing_thread_)
    /\ terminated' = TRUE
    /\ UNCHANGED <<max_batch_size_, queue_size_, request_queue_, running_,
                   processing_thread_, queue_mutex_, loopPc, loopBatch, joined,
                   callerPc, callerThread, promise, inferenceFails, setCount,
                   submitResult, notBatch>>

\* stop(): running_ = false
StopStore(c) ==
    /\ ~terminated
    /\ callerPc[c] = "idle"
    /\ running_' = FALSE
    /\ callerPc' = [callerPc EXCEPT ![c] = "stop_notify"]
    /\ UNCHANGED <<max_batch_size_, queue_size_, request_queue_, processing_thread_,
                   queue_mutex_, loopPc, loopBatch, joined, callerThread, promise,
                   inferenceFails, setCount, submitResult, terminated, notBatch>>

\* stop(): queue_cv_.notify_all(); then the test of processing_thread_: the
\* call returns when there is no joinable thread.
StopNotify(c) ==
    /\ ~terminated
    /\ callerPc[c] = "stop_notify"
    /\ loopPc' = NotifyAll(loopPc)
    /\ IF Joinable(processing_thread_)
       THEN /\ callerPc' = [callerPc EXCEPT ![c] = "stop_join"]
            /\ callerThread' = [callerThread EXCEPT ![c] = processing_thread_]
       ELSE /\ callerPc' = [callerPc EXCEPT ![c] = "idle"]
            /\ callerThread' = callerThread
    /\ UNCHANGED <<max_batch_size_, queue_size_, request_queue_, running_,
                   processing_thread_, queue_mutex_, loopBatch, joined, promise,
                   inferenceFails, setCount, submitResult, terminated, notBatch>>

\* stop(): processing_thread_->join() returns once the thread has exited.
StopJoin(c) ==
    /\ ~terminated
    /\ callerPc[c] = "stop_join"
    /\ loopPc[callerThread[c]] = "exited"
    /\ joined' = joined \cup {callerThread[c]}
    /\ callerPc' = [callerPc EXCEPT ![c] = "idle"]
    /\ callerThread' = [callerThread EXCEPT ![c] = 0]
    /\ UNCHANGED <<max_batch_size_, queue_size_, request_queue_, running_,
                   processing_thread_, queue_mutex_, loopPc, loopBatch, promise,
                   inferenceFails, setCount, submitResult, terminated, notBatch>>

\* processing_loop: while (running_)
LoopWhile(t) ==
    /\ ~terminated
    /\ loopPc[t] = "while"
    /\ loopPc' = [loopPc EXCEPT ![t] = IF running_ THEN "lock" ELSE "exited"]
    /\ UNCHANGED <<max_batch_size_, queue_size_, request_queue_, running_,
                   processing_thread_, queue_mutex_, loopBatch, joined, callerPc,
                   callerThread, promise, inferenceFails, setCount, submitResult,
                   terminated, notBatch>>

\* processing_loop: the mutex is taken (on entry, or on waking up inside
\* wait) and the wait predicate !running_ || !request_queue_.empty() is
\* evaluated.
LoopLock(t) ==
    /\ ~terminated
    /\ loopPc[t] = "lock"
    /\ queue_mutex_ = 0
    /\ queue_mutex_' = t
    /\ loopPc' = [loopPc EXCEPT ![t] =
                     IF ~running_ \/ request_queue_ # <<>> THEN "woke" ELSE "to_block"]
    /\ UNCHANGED <<max_batch_size_, queue_size_, request_queue_, running_,
                   processing_thread_, loopBatch, joined, callerPc, callerThread,
                   promise, inferenceFails, setCount, submitResult, terminated,
                   notBatch>>

\* processing_loop: after a false predicate, wait releases the mutex and
\* blocks until a notify.
LoopBlock(t) ==
    /\ ~terminated
    /\ loopPc[t] = "to_block"
    /\ queue_mutex_' = 0
    /\ loopPc' = [loopPc EXCEPT ![t] = "blocked"]
    /\ UNCHANGED <<max_batch_size_, queue_size_, request_queue_, running_,
                   processing_thread_, loopBatch, joined, callerPc, callerThread,
                   promise, inferenceFails, setCount, submitResult, terminated,
                   notBatch>>

\* processing_loop: if (!running_) break; else up to max_batch_size_
\* requests are moved from the queue into the batch, and the mutex released.
LoopCollect(t) ==
    LET n == BatchCount(request_queue_, max_batch_size_)
    IN /\ ~terminated
       /\ loopPc[t] = "woke"
       /\ queue_mutex_' = 0
       /\ IF ~running_
          THEN /\ loopPc' = [loopPc EXCEPT ![t] = "exited"]
               /\ UNCHANGED <<request_queue_, loopBatch>>
          ELSE /\ loopBatch' = [loopBatch EXCEPT ![t] = SubSeq(request_queue_, 1, n)]
               /\ request_queue_' = SubSeq(request_queue_, n + 1, Len(request_queue_))
               /\ loopPc' = [loopPc EXCEPT ![t] = IF n > 0 THEN "process" ELSE "while"]
       /\ UNCHANGED <<max_batch_size_, queue_size_, running_, processing_thread_,
                      joined, callerPc, callerThread, promise, inferenceFails,
                      setCount, submitResult, terminated, notBatch>>

\* processing_loop: process_batch(batch) and the promises of the batch.
\* `failing` are the requests whose inference throws inside process_batch;
\* `escapes` is an exception that leaves process_batch (thrown while one of
\* those failures is handled).
LoopProcess(t) ==
    \E failing \in SUBSET InBatch(loopBatch[t]) :
    \E escapes \in {FALSE, failing # {}} :
        /\ ~terminated
        /\ loopPc[t] = "process"
        /\ inferenceFails' = [r \in Requests |-> inferenceFails[r] \/ r \in failing]
        /\ promise' = Fulfil(promise, loopBatch[t], failing, escapes)
        /\ setCount' = [r \in Requests |->
                           IF r \in InBatch(loopBatch[t])
                           THEN setCount[r] + 1 ELSE setCount[r]]
        /\ loopBatch' = [loopBatch EXCEPT ![t] = <<>>]
        /\ loopPc' = [loopPc EXCEPT ![t] = "while"]
        /\ UNCHANGED <<max_batch_size_, queue_size_, request_queue_, running_,
                       processing_thread_, queue_mutex_, joined, callerPc,
                       callerThread, submitResult, terminated, notBatch>>

LoopStep(t) ==
    LoopWhile(t) \/ LoopLock(t) \/ LoopBlock(t) \/ LoopCollect(t) \/ LoopProcess(t)

\* A client thread finishing a start() or stop() call it is inside.
CallerStep(c) == StartSpawn(c) \/ StartAssign(c) \/ StopNotify(c) \/ StopJoin(c)

BatchNext ==
    \/ SubmitAccepted
    \/ SubmitRejected
    \/ \E c \in Starters : StartCheck(c)
    \/ \E c \in Starters : StartSpawn(c)
    \/ \E c \in Starters : StartAssign(c)
    \/ \E c \in Starters : StartTerminate(c)
    \/ \E c \in Stoppers : StopStore(c)
    \/ \E c \in Stoppers : StopNotify(c)
    \/ \E c \in Stoppers : StopJoin(c)
    \/ \E t \in Threads : LoopWhile(t)
    \/ \E t \in Threads : LoopLock(t)
    \/ \E t \in Threads : LoopBlock(t)
    \/ \E t \in Threads : LoopCollect(t)
    \/ \E t \in Threads : LoopProcess(t)

(***************************************************************************)
(* Tensor: construction, move, reshape and the two access paths.  A buffer *)
(* is a function from byte offsets to bytes, kept in `heap` under the id   *)
(* its unique_ptr holds; NULL is the empty unique_ptr.                     *)
(***************************************************************************)
DTypes == {"FP32", "FP16", "INT8", "Q4"}

\* The program variables that hold a Tensor.
Slots == {"t", "t2"}

\* The width of int.  The build's int has 32 bits; the model's has 16, so
\* that the products below stay inside the model checker's integers, and
\* the dimension sizes are scaled with it: BigDim * BigDim = 2^IntBits, as
\* 65536 * 65536 = 2^32 in the build.
IntBits == 16

BigDim == 2 ^ (IntBits \div 2)

\* Dimension sizes, and the shapes of rank 0 to 2 over them.
Dims == (0..MaxDim) \cup {BigDim}

Shapes == {<<>>} \cup {<<a>> : a \in Dims} \cup {<<a, b>> : a, b \in Dims}

\* sizeof(T) of the element types a caller asks data<T>() for:
\* uint8_t, uint16_t, float, double.
TypeSizes == {1, 2, 4, 8}

\* The conversion of an integer to int: the low IntBits bits, read as a
\* two's-complement number.
WrapInt(x) ==
    LET m == 2 ^ IntBits
        u == x % m
    IN IF u >= m \div 2 THEN u - m ELSE u

\* std::multiplies<int>: the product of two ints.  A product outside int
\* is undefined: the build keeps its low bits (wrap) or computes it in a
\* wider register (wide).
MulInt(a, b, mode) == IF mode = "wrap" THEN WrapInt(a * b) ELSE a * b

\* std::accumulate(shape.begin(), shape.end(), 1UL, std::multiplies<int>())
\* from element i on: the accumulator is converted to int for each product.
RECURSIVE ShapeProduct(_, _, _, _)
ShapeProduct(shape, i, acc, mode) ==
    IF i > Len(shape) THEN acc
    ELSE ShapeProduct(shape, i + 1, MulInt(WrapInt(acc), shape[i], mode), mode)

\* Tensor::calculate_numel.  A negative int converts to a size_t above
\* every allocatable size; the model keeps the negative number for it.
calculate_numel(shape, mode) ==
    IF shape = <<>> THEN 0 ELSE ShapeProduct(shape, 1, 1, mode)

calculate_byte_size(numel, dtype) ==
    CASE dtype = "FP32" -> numel * 4
      [] dtype = "FP16" -> numel * 2
      [] dtype = "INT8" -> numel * 1
      [] dtype = "Q4" -> (numel + 1) \div 2

\* An element size that takes FP16 for a four-byte type.
element_size_wide(dtype) ==
    CASE dtype = "FP32" -> 4
      [] dtype = "FP16" -> 4
      [] dtype = "INT8" -> 1
      [] dtype = "Q4" -> 0

\* Tensor::element_size(): `return 0.5` converts to size_t 0 for Q4.
element_size(dtype) ==
    CASE dtype = "FP32" -> 4
      [] dtype = "FP16" -> 2
      [] dtype = "INT8" -> 1
      [] dtype = "Q4" -> 0

\* A program variable that holds no Tensor yet.
NoTensor == [shape |-> <<>>, dtype |-> "none", numel |-> 0, byte_size |-> 0, data |-> NULL]

Exists(x) == x.dtype # "none"

\* std::make_unique<uint8_t[]>(n): n value-initialised bytes.
ZeroBytes(n) == [i \in 0..(n - 1) |-> 0]

\* The id of a buffer operator new returns: the least one not live.
FreshBuffer(h) ==
    CHOOSE b \in 1..(Cardinality(DOMAIN h) + 1) :
        b \notin DOMAIN h /\ \A c \in 1..(b - 1) : c \in DOMAIN h

\* The heap with buffer b holding `bytes`.
HeapWith(h, b, bytes) == [c \in DOMAIN h \cup {b} |-> IF c = b THEN bytes ELSE h[c]]

\* The heap after the unique_ptr that held b released it (b = NULL: nothing).
HeapWithout(h, b) == [c \in DOMAIN h \ {b} |-> h[c]]

\* Tensor::Tensor(shape, dtype) with its buffer at id buf.
TensorCtor(shape, dtype, buf, mode) ==
    [shape |-> shape,
     dtype |-> dtype,
     numel |-> calculate_numel(shape, mode),
     byte_size |-> calculate_byte_size(calculate_numel(shape, mode), dtype),
     data |-> buf]

\* std::make_unique<uint8_t[]>(byte_size_) throws std::bad_alloc: the size
\* is more than the memory there is.
AllocFails(shape, dtype, mode) ==
    LET numel == calculate_numel(shape, mode)
    IN numel < 0 \/ calculate_byte_size(numel, dtype) > MaxAlloc

\* A move that leaves the source holding its buffer.
MovedFromAliased(x) == x

\* The source of a move afterwards: shape_ and data_ were moved from (an
\* empty vector, an empty unique_ptr), dtype_, numel_ and byte_size_ copied.
MovedFrom(x) == [x EXCEPT !.shape = <<>>, !.data = NULL]

\* std::memcpy(dst, src, n)
Memcpy(dst, src, n) == [i \in DOMAIN dst |-> IF i < n THEN src[i] ELSE dst[i]]

\* The bytes a caller stores through raw() or data<T>().
BytePattern(n) == [i \in 0..(n - 1) |-> (7 * i + 3) % 256]

CallRecord(op, src, dst, shape, size, status) ==
    [op |-> op, src |-> src, dst |-> dst, shape |-> shape, size |-> size,
     status |-> status]

TensorStart ==
    /\ intMode \in {"wrap", "wide"}
    /\ tensors = [s \in Slots |-> NoTensor]
    /\ heap = <<>>
    /\ tLast = CallRecord("none", "t", "t", <<>>, 0, "ok")

TensorIdle ==
    /\ intMode = "wrap"
    /\ tensors = [s \in Slots |-> NoTensor]
    /\ heap = <<>>
    /\ tLast = CallRecord("none", "t", "t", <<>>, 0, "ok")

\* Tensor t(shape, dtype); the first statement of the program: every other
\* tensor is made from t by reshape and move.
Construct ==
    \E shape \in Shapes, dtype \in DTypes :
    LET buf == FreshBuffer(heap)
        x == TensorCtor(shape, dtype, buf, intMode)
    IN /\ tLast.op = "none"
       /\ ~AllocFails(shape, dtype, intMode)
       /\ tensors' = [tensors EXCEPT !["t"] = x]
       /\ heap' = HeapWith(heap, buf, ZeroBytes(x.byte_size))
       /\ tLast' = CallRecord("construct", "t", "t", shape, 0, "ok")
       /\ UNCHANGED <<intMode, notTensor>>

\* Tensor t(shape, dtype); when the allocation fails: std::bad_alloc.
ConstructThrows ==
    \E shape \in Shapes, dtype \in DTypes :
    /\ tLast.op = "none"
    /\ AllocFails(shape, dtype, intMode)
    /\ tLast' = CallRecord("construct", "t", "t", shape, 0, "error")
    /\ UNCHANGED <<intMode, tensors, heap, notTensor>>

\* The caller fills the buffer of a tensor through raw().
WriteBytes ==
    \E s \in Slots :
    LET x == tensors[s]
    IN /\ tLast.status # "crash"
       /\ x.data # NULL
       /\ x.byte_size > 0
       /\ heap[x.data] = ZeroBytes(x.byte_size)
       /\ heap' = [heap EXCEPT ![x.data] = BytePattern(x.byte_size)]
       /\ tLast' = CallRecord("write", s, s, <<>>, 0, "ok")
       /\ UNCHANGED <<intMode, tensors, notTensor>>

\* Tensor d = s.reshape(new_shape); with matching numel.
ReshapeCopies ==
    \E s \in Slots, d \in Slots, new_shape \in Shapes :
    LET x == tensors[s]
        buf == FreshBuffer(heap)
        reshaped == TensorCtor(new_shape, x.dtype, buf, intMode)
    IN /\ tLast.status # "crash"
       /\ Exists(x) /\ tensors[d] = NoTensor
       /\ calculate_numel(new_shape, intMode) = x.numel
       /\ x.data # NULL \/ x.byte_size = 0
       /\ tensors' = [tensors EXCEPT ![d] = reshaped]
       /\ heap' = HeapWith(heap, buf,
                           Memcpy(ZeroBytes(reshaped.byte_size),
                                  IF x.data = NULL THEN <<>> ELSE heap[x.data],
                                  x.byte_size))
       /\ tLast' = CallRecord("reshape", s, d, new_shape, 0, "ok")
       /\ UNCHANGED <<intMode, notTensor>>

\* s.reshape(new_shape) with a different numel: throws.
ReshapeThrows ==
    \E s \in Slots, d \in Slots, new_shape \in Shapes :
    LET x == tensors[s]
    IN /\ tLast.status # "crash"
       /\ Exists(x) /\ tensors[d] = NoTensor
       /\ calculate_numel(new_shape, intMode) # x.numel
       /\ tLast' = CallRecord("reshape", s, d, new_shape, 0, "error")
       /\ UNCHANGED <<intMode, tensors, heap, notTensor>>

\* s.reshape(new_shape) on a moved-from tensor whose numel_ matches: memcpy
\* reads byte_size_ bytes from a null pointer.
ReshapeNull ==
    \E s \in Slots, d \in Slots, new_shape \in Shapes :
    LET x == tensors[s]
    IN /\ tLast.status # "crash"
       /\ Exists(x) /\ tensors[d] = NoTensor
       /\ calculate_numel(new_shape, intMode) = x.numel
       /\ x.data = NULL /\ x.byte_size > 0
       /\ tLast' = CallRecord("reshape", s, d, new_shape, 0, "crash")
       /\ UNCHANGED <<intMode, tensors, heap, notTensor>>

\* Tensor d = std::move(s);
MoveConstruct ==
    \E s \in Slots, d \in Slots :
    /\ tLast.status # "crash"
    /\ Exists(tensors[s]) /\ tensors[d] = NoTensor
    /\ tensors' = [tensors EXCEPT ![d] = tensors[s], ![s] = MovedFrom(tensors[s])]
    /\ tLast' = CallRecord("move_construct", s, d, <<>>, 0, "ok")
    /\ UNCHANGED <<intMode, heap, notTensor>>

\* d = std::move(s);  Nothing happens when d and s are the same object;
\* otherwise the buffer d held is released.
MoveAssign ==
    \E s \in Slots, d \in Slots :
    /\ tLast.status # "crash"
    /\ Exists(tensors[s]) /\ Exists(tensors[d])
    /\ IF s = d
       THEN UNCHANGED <<tensors, heap>>
       ELSE /\ tensors' = [tensors EXCEPT ![d] = tensors[s],
                                          ![s] = MovedFrom(tensors[s])]
            /\ heap' = HeapWithout(heap, tensors[d].data)
    /\ tLast' = CallRecord("move_assign", s, d, <<>>, 0, "ok")
    /\ UNCHANGED <<intMode, notTensor>>

\* The variable s goes out of scope: ~Tensor() releases the buffer it holds.
Destroy ==
    \E s \in Slots :
    /\ tLast.status # "crash"
    /\ Exists(tensors[s])
    /\ tensors' = [tensors EXCEPT ![s] = NoTensor]
    /\ heap' = HeapWithout(heap, tensors[s].data)
    /\ tLast' = CallRecord("destroy", s, s, <<>>, 0, "ok")
    /\ UNCHANGED <<intMode, notTensor>>

\* s.data<T>() with sizeof(T) = size
AccessData ==
    \E s \in Slots, size \in TypeSizes :
    LET x == tensors[s]
    IN /\ tLast.status # "crash"
       /\ Exists(x)
       /\ tLast' = CallRecord("data", s, s, <<>>, size,
                              IF x.dtype = "Q4" \/ size # element_size(x.dtype)
                              THEN "error" ELSE "ok")
       /\ UNCHANGED <<intMode, tensors, heap, notTensor>>

\* s.q4_data()
AccessQ4 ==
    \E s \in Slots :
    LET x == tensors[s]
    IN /\ tLast.status # "crash"
       /\ Exists(x)
       /\ tLast' = CallRecord("q4_data", s, s, <<>>, 0,
                              IF x.dtype # "Q4" THEN "error" ELSE "ok")
       /\ UNCHANGED <<intMode, tensors, heap, notTensor>>

TensorNext ==
    \/ Construct
    \/ ConstructThrows
    \/ WriteBytes
    \/ ReshapeCopies
    \/ ReshapeThrows
    \/ ReshapeNull
    \/ MoveConstruct
    \/ MoveAssign
    \/ Destroy
    \/ AccessData
    \/ AccessQ4

(***************************************************************************)
(* GemmRef::matmul and GemmRef::matvec called on Tensors of any rank.  The *)
(* three tensors are FP32, so that data<float>() succeeds on each.         *)
(***************************************************************************)
CallDims == 1..MaxCallDim

CallShapes ==
    {<<a>> : a \in CallDims} \cup {<<a, b>> : a, b \in CallDims}
                             \cup {<<a, b, c>> : a, b, c \in CallDims}

CallData(shape, o) == [i \in 0..(calculate_numel(shape, "wrap") - 1) |-> ((i + o) % 5) - 2]

\* GemmRef::validate_shapes: the message of the exception thrown, or "ok".
validate_shapes(shape_A, shape_B, shape_C) ==
    IF Len(shape_A) # 2 \/ Len(shape_B) # 2 \/ Len(shape_C) # 2
    THEN "GEMM requires 2D tensors"
    ELSE IF shape_A[2] # shape_B[1]
    THEN "Matrix dimensions don't match for multiplication"
    ELSE IF shape_A[1] # shape_C[1] \/ shape_B[2] # shape_C[2]
    THEN "Output matrix dimensions don't match"
    ELSE "ok"

\* The two tests at the head of GemmRef::matvec.
matvec_shapes(shape_A, shape_x, shape_y) ==
    IF Len(shape_A) # 2 \/ Len(shape_x) # 1 \/ Len(shape_y) # 1
    THEN "matvec requires A to be 2D and x, y to be 1D"
    ELSE IF shape_A[2] # shape_x[1] \/ shape_A[1] # shape_y[1]
    THEN "Matrix-vector dimensions don't match"
    ELSE "ok"

\* A matmul that scales C by beta before it looks at the shapes.
GemmRef_matmul_prescaled(A, B, C, shape_A, shape_B, shape_C, al, be) ==
    IF validate_shapes(shape_A, shape_B, shape_C) # "ok"
    THEN [status |-> "error", C |-> [i \in DOMAIN C |-> be * C[i]]]
    ELSE [status |-> "ok",
          C |-> simple_matmul(A, B, C, shape_A[1], shape_A[2], shape_B[2], al, be).C]

\* GemmRef::matmul(A, B, C, alpha, beta): how the call ends and what C holds.
GemmRef_matmul(A, B, C, shape_A, shape_B, shape_C, al, be) ==
    IF validate_shapes(shape_A, shape_B, shape_C) # "ok"
    THEN [status |-> "error", C |-> C]
    ELSE [status |-> "ok",
          C |-> simple_matmul(A, B, C, shape_A[1], shape_A[2], shape_B[2], al, be).C]

\* GemmRef::matvec(A, x, y, alpha, beta): how the call ends and what y holds.
GemmRef_matvec_call(A, x, y, shape_A, shape_x, shape_y, al, be) ==
    IF matvec_shapes(shape_A, shape_x, shape_y) # "ok"
    THEN [status |-> "error", y |-> y]
    ELSE [status |-> "ok",
          y |-> GemmRef_matvec(A, x, y, shape_A[1], shape_A[2], al, be)]

CallStart ==
    /\ cShapeA \in CallShapes
    /\ cShapeB \in CallShapes
    /\ cShapeC \in CallShapes
    /\ cA = CallData(cShapeA, 0)
    /\ cB = CallData(cShapeB, 1)
    /\ cC = CallData(cShapeC, 2)
    /\ cOp = "none"
    /\ cStatus = "none"
    /\ cAlpha = 0
    /\ cBeta = 0

CallIdle ==
    /\ cShapeA = <<1, 1>>
    /\ cShapeB = <<1, 1>>
    /\ cShapeC = <<1, 1>>
    /\ cA = CallData(<<1, 1>>, 0)
    /\ cB = CallData(<<1, 1>>, 1)
    /\ cC = CallData(<<1, 1>>, 2)
    /\ cOp = "none"
    /\ cStatus = "none"
    /\ cAlpha = 0
    /\ cBeta = 0

\* GemmRef::matmul(A, B, C, alpha, beta)
CallMatmul ==
    \E al \in {1, 2}, be \in {0, 2} :
    LET r == GemmRef_matmul(cA, cB, cC, cShapeA, cShapeB, cShapeC, al, be)
    IN /\ cOp = "none"
       /\ cOp' = "matmul"
       /\ cStatus' = r.status
       /\ cC' = r.C
       /\ cAlpha' = al
       /\ cBeta' = be
       /\ UNCHANGED <<cShapeA, cShapeB, cShapeC, cA, cB, notCall>>

\* GemmRef::matvec(A, x, y, alpha, beta) with x = B and y = C
CallMatvec ==
    \E al \in {1, 2}, be \in {0, 2} :
    LET r == GemmRef_matvec_call(cA, cB, cC, cShapeA, cShapeB, cShapeC, al, be)
    IN /\ cOp = "none"
       /\ cOp' = "matvec"
       /\ cStatus' = r.status
       /\ cC' = r.y
       /\ cAlpha' = al
       /\ cBeta' = be
       /\ UNCHANGED <<cShapeA, cShapeB, cShapeC, cA, cB, notCall>>

CallNext == CallMatmul \/ CallMatvec

(***************************************************************************)
(* FlashAttention::forward on inputs of any shape.                         *)
(***************************************************************************)
FwdDims == 1..MaxFwdDim

\* The shapes a key or value may have next to query shape q: q itself, q
\* with one dimension changed, q without its last dimension, q with a
\* fourth dimension.
ShapeVariants(q) ==
    {q} \cup {[q EXCEPT ![i] = n] : i \in 1..3, n \in FwdDims}
        \cup {SubSeq(q, 1, 2), q \o <<1>>}

FwdData(shape, o, modulus) ==
    [i \in 0..(calculate_numel(shape, "wrap") - 1) |-> ((i + o) % modulus) - 1]

\* The three tests at the head of forward: the message of the exception
\* thrown, or "ok".
forward_shapes(q_shape, k_shape, v_shape) ==
    IF Len(q_shape) # 3 \/ Len(k_shape) # 3 \/ Len(v_shape) # 3
    THEN "FlashAttention requires 3D tensors [batch, seq, hidden]"
    ELSE IF q_shape[1] # k_shape[1] \/ q_shape[1] # v_shape[1]
    THEN "Batch size mismatch in attention inputs"
    ELSE IF q_shape[3] # k_shape[3] \/ q_shape[3] # v_shape[3]
    THEN "Hidden size mismatch in attention inputs"
    ELSE "ok"

\* src_idx of the head extraction for destination index dst_idx.
HeadSrcIdx(dst_idx, seq_len, hidden_size, head, head_dim) ==
    LET b == dst_idx \div (seq_len * head_dim)
        s == (dst_idx % (seq_len * head_dim)) \div head_dim
        d == dst_idx % head_dim
    IN b * seq_len * hidden_size + s * hidden_size + head * head_dim + d

\* The head extraction of forward for one of the three inputs: the copy is
\* guarded by src_idx < query.numel() only, so a shorter input x is read
\* past its end, where it yields `junk`.
ExtractHeadFrom(x, query_numel, batch_size, seq_len, hidden_size, head, head_dim, junk) ==
    [dst_idx \in 0..(batch_size * seq_len * head_dim - 1) |->
        LET src_idx == HeadSrcIdx(dst_idx, seq_len, hidden_size, head, head_dim)
        IN IF src_idx < query_numel
           THEN (IF src_idx \in DOMAIN x THEN x[src_idx] ELSE junk)
           ELSE 0]

\* TRUE when the head extraction reads x at an index past its end.
ReadsPast(x, query_numel, batch_size, seq_len, hidden_size, num_heads, head_dim) ==
    \E head \in 0..(num_heads - 1), dst_idx \in 0..(batch_size * seq_len * head_dim - 1) :
        LET src_idx == HeadSrcIdx(dst_idx, seq_len, hidden_size, head, head_dim)
        IN src_idx < query_numel /\ src_idx \notin DOMAIN x

\* The copy-back loops of forward, flattened in loop order (head, b, s, d):
\* step n stores head_output[src_idx] into output[dst_idx] when dst_idx is
\* inside the output.
RECURSIVE CopyBack(_, _, _, _, _, _, _, _)
CopyBack(st, head_output, batch_size, seq_len, hidden_size, num_heads, head_dim, n) ==
    LET per_head == batch_size * seq_len * head_dim
    IN IF n >= num_heads * per_head THEN st
       ELSE LET head == n \div per_head
                src_idx == n % per_head
                dst_idx == HeadSrcIdx(src_idx, seq_len, hidden_size, head, head_dim)
                stored == dst_idx < batch_size * seq_len * hidden_size
            IN CopyBack(
                 IF stored
                 THEN [out |-> [st.out EXCEPT ![dst_idx] = head_output[head][src_idx]],
                       written |-> st.written \cup {dst_idx}]
                 ELSE st,
                 head_output, batch_size, seq_len, hidden_size, num_heads, head_dim, n + 1)

\* forward after its tests passed: the shape of the query gives batch_size,
\* seq_len and hidden_size; the output starts zero-filled.
forward_body(q, k, v, q_shape, num_heads, head_dim, junk) ==
    LET batch_size == q_shape[1]
        seq_len == q_shape[2]
        hidden_size == q_shape[3]
        query_numel == batch_size * seq_len * hidden_size
        head_output == [head \in 0..(num_heads - 1) |->
            compute_attention(
                ExtractHeadFrom(q, query_numel, batch_size, seq_len, hidden_size,
                                head, head_dim, junk),
                ExtractHeadFrom(k, query_numel, batch_size, seq_len, hidden_size,
                                head, head_dim, junk),
                ExtractHeadFrom(v, query_numel, batch_size, seq_len, hidden_size,
                                head, head_dim, junk),
                batch_size, seq_len, head_dim)]
    IN CopyBack([out |-> [i \in 0..(query_numel - 1) |-> 0], written |-> {}],
                head_output, batch_size, seq_len, hidden_size, num_heads, head_dim, 0)

FwdStart ==
    /\ fShapeQ \in {<<b, s, h>> : b \in FwdDims, s \in FwdDims, h \in FwdDims}
    /\ fShapeK \in ShapeVariants(fShapeQ)
    /\ fShapeV \in ShapeVariants(fShapeQ)
    /\ fHeads \in FwdDims
    /\ fHeadDim \in FwdDims
    /\ fQ = FwdData(fShapeQ, 1, 3)
    /\ fK = FwdData(fShapeK, 0, 4)
    /\ fV = FwdData(fShapeV, 1, 5)
    /\ fStatus = "none"
    /\ fOut = <<>>
    /\ fWritten = {}
    /\ fReadPast = FALSE

FwdIdle ==
    /\ fShapeQ = <<1, 1, 1>>
    /\ fShapeK = <<1, 1, 1>>
    /\ fShapeV = <<1, 1, 1>>
    /\ fHeads = 1
    /\ fHeadDim = 1
    /\ fQ = FwdData(<<1, 1, 1>>, 1, 3)
    /\ fK = FwdData(<<1, 1, 1>>, 0, 4)
    /\ fV = FwdData(<<1, 1, 1>>, 1, 5)
    /\ fStatus = "none"
    /\ fOut = <<>>
    /\ fWritten = {}
    /\ fReadPast = FALSE

\* forward(query, key, value, nullptr) when one of its tests throws.
ForwardThrows ==
    /\ fStatus = "none"
    /\ forward_shapes(fShapeQ, fShapeK, fShapeV) # "ok"
    /\ fStatus' = "error"
    /\ UNCHANGED <<fShapeQ, fShapeK, fShapeV, fHeads, fHeadDim, fQ, fK, fV, fOut,
                   fWritten, fReadPast, notFwd>>

\* forward(query, key, value, nullptr) when its tests pass.  What a read
\* past the end of key or value yields is not defined: `junk`.
ForwardReturns ==
    LET query_numel == calculate_numel(fShapeQ, "wrap")
        past == \/ ReadsPast(fK, query_numel, fShapeQ[1], fShapeQ[2], fShapeQ[3],
                             fHeads, fHeadDim)
                \/ ReadsPast(fV, query_numel, fShapeQ[1], fShapeQ[2], fShapeQ[3],
                             fHeads, fHeadDim)
    IN /\ fStatus = "none"
       /\ forward_shapes(fShapeQ, fShapeK, fShapeV) = "ok"
       /\ \E junk \in (IF past THEN {-1, 2} ELSE {0}) :
             LET r == forward_body(fQ, fK, fV, fShapeQ, fHeads, fHeadDim, junk)
             IN fOut' = r.out /\ fWritten' = r.written
       /\ fReadPast' = past
       /\ fStatus' = "ok"
       /\ UNCHANGED <<fShapeQ, fShapeK, fShapeV, fHeads, fHeadDim, fQ, fK, fV, notFwd>>

FwdNext == ForwardThrows \/ ForwardReturns

(***************************************************************************)
(* ThreadPool (threadpool.cpp).                                            *)
(*                                                                         *)
(* condition_.wait(lock, pred) is `while (!pred()) wait(lock)`: the        *)
(* predicate is evaluated with queue_mutex_ held, and wait(lock) releases  *)
(* the mutex and blocks in one step.  A thread that found the predicate    *)
(* false is at "to_block" until it blocks; a notify wakes blocked threads  *)
(* only.                                                                   *)
(***************************************************************************)
Workers == 1..num_threads

\* The client threads that call into the pool; the owner also destroys it.
Clients == {1, 2}

Owner == 1

MutexFree == <<"free", 0>>

\* The pool is alive until its owner enters the destructor.
PoolAlive == clientPc[Owner] \notin {"dtor_notify", "dtor_join", "done"}

BlockedWorkers == {w \in Workers : workerPc[w] = "blocked"}

BlockedClients == {c \in Clients : clientPc[c] = "wait_blocked"}

\* The constructor: stop_ is false and num_threads workers run worker_loop.
ThreadsStart ==
    /\ num_threads \in 1..MaxWorkers
    /\ tasks_ = <<>>
    /\ stop_ = FALSE
    /\ poolMutex = MutexFree
    /\ workerPc = [w \in 1..num_threads |-> "lock"]
    /\ workerTask = [w \in 1..num_threads |-> 0]
    /\ tasksDone = {}
    /\ submitted = 0
    /\ clientPc = [c \in Clients |-> "idle"]
    /\ clientTask = [c \in Clients |-> 0]
    /\ waitFor = [c \in Clients |-> {}]
    /\ joinIdx = 0

\* A pool that was destroyed: the state of the pool in the specifications
\* of the other components.
ThreadsIdle ==
    /\ num_threads = 1
    /\ tasks_ = <<>>
    /\ stop_ = TRUE
    /\ poolMutex = MutexFree
    /\ workerPc = [w \in 1..1 |-> "exited"]
    /\ workerTask = [w \in 1..1 |-> 0]
    /\ tasksDone = {}
    /\ submitted = 0
    /\ clientPc = [c \in Clients |-> "done"]
    /\ clientTask = [c \in Clients |-> 0]
    /\ waitFor = [c \in Clients |-> {}]
    /\ joinIdx = 2

\* worker_loop, lines 62-72: lock, wait on stop_ || !tasks_.empty(), then
\* return when the queue is empty (stop_ was set), else pop the front task.
\* With a false predicate the worker keeps the mutex and is about to block.
WorkerLock(w) ==
    /\ workerPc[w] = "lock"
    /\ poolMutex = MutexFree
    /\ IF stop_ \/ tasks_ # <<>>
       THEN IF tasks_ = <<>>
            THEN /\ workerPc' = [workerPc EXCEPT ![w] = "exited"]
                 /\ UNCHANGED <<tasks_, workerTask, poolMutex>>
            ELSE /\ workerTask' = [workerTask EXCEPT ![w] = Head(tasks_)]
                 /\ tasks_' = Tail(tasks_)
                 /\ workerPc' = [workerPc EXCEPT ![w] = "run"]
                 /\ UNCHANGED poolMutex
       ELSE /\ workerPc' = [workerPc EXCEPT ![w] = "to_block"]
            /\ poolMutex' = <<"worker", w>>
            /\ UNCHANGED <<tasks_, workerTask>>
    /\ UNCHANGED <<num_threads, stop_, tasksDone, submitted, clientPc, clientTask,
                   waitFor, joinIdx, notThreads>>

\* The worker releases the mutex and blocks on condition_.
WorkerBlock(w) ==
    /\ workerPc[w] = "to_block"
    /\ workerPc' = [workerPc EXCEPT ![w] = "blocked"]
    /\ poolMutex' = MutexFree
    /\ UNCHANGED <<num_threads, tasks_, stop_, workerTask, tasksDone, submitted,
                   clientPc, clientTask, waitFor, joinIdx, notThreads>>

\* task(): the task runs to its end outside the lock.
WorkerRun(w) ==
    /\ workerPc[w] = "run"
    /\ tasksDone' = tasksDone \cup {workerTask[w]}
    /\ workerTask' = [workerTask EXCEPT ![w] = 0]
    /\ workerPc' = [workerPc EXCEPT ![w] = "lock"]
    /\ UNCHANGED <<num_threads, tasks_, stop_, poolMutex, submitted, clientPc,
                   clientTask, waitFor, joinIdx, notThreads>>

WorkerStep(w) == WorkerLock(w) \/ WorkerBlock(w) \/ WorkerRun(w)

\* submit(), lines 38-46: under the lock, the task joins the queue (stop_
\* is false as long as the pool is alive).
Submit(c) ==
    /\ PoolAlive
    /\ clientPc[c] = "idle"
    /\ poolMutex = MutexFree
    /\ ~stop_
    /\ submitted < MaxTasks
    /\ tasks_' = Append(tasks_, submitted + 1)
    /\ submitted' = submitted + 1
    /\ clientPc' = [clientPc EXCEPT ![c] = "submit_notify"]
    /\ clientTask' = [clientTask EXCEPT ![c] = submitted + 1]
    /\ UNCHANGED <<num_threads, stop_, poolMutex, workerPc, workerTask, tasksDone,
                   waitFor, joinIdx, notThreads>>

\* submit(), line 48: condition_.notify_one() wakes one of the threads
\* blocked on condition_, a worker or a client inside wait(), if there is one.
SubmitNotify(c) ==
    /\ clientPc[c] = "submit_notify"
    /\ \/ /\ BlockedWorkers = {} /\ BlockedClients = {}
          /\ clientPc' = [clientPc EXCEPT ![c] = "idle"]
          /\ UNCHANGED workerPc
       \/ \E w \in BlockedWorkers :
             /\ workerPc' = [workerPc EXCEPT ![w] = "lock"]
             /\ clientPc' = [clientPc EXCEPT ![c] = "idle"]
       \/ \E d \in BlockedClients :
             /\ clientPc' = [clientPc EXCEPT ![c] = "idle", ![d] = "wait_lock"]
             /\ UNCHANGED workerPc
    /\ clientTask' = [clientTask EXCEPT ![c] = 0]
    /\ UNCHANGED <<num_threads, tasks_, stop_, poolMutex, workerTask, tasksDone,
                   submitted, waitFor, joinIdx, notThreads>>

\* A client calls wait(); waitFor remembers the tasks whose submit() has
\* returned.
WaitCall(c) ==
    /\ PoolAlive
    /\ clientPc[c] = "idle"
    /\ clientPc' = [clientPc EXCEPT ![c] = "wait_lock"]
    /\ waitFor' = [waitFor EXCEPT ![c] = (1..submitted) \ {clientTask[d] : d \in Clients}]
    /\ UNCHANGED <<num_threads, tasks_, stop_, poolMutex, workerPc, workerTask,
                   tasksDone, submitted, clientTask, joinIdx, notThreads>>

\* wait(), lines 53-54: lock, wait on tasks_.empty(); with an empty queue
\* the call returns, else the client keeps the mutex and is about to block.
WaitLock(c) ==
    /\ clientPc[c] = "wait_lock"
    /\ poolMutex = MutexFree
    /\ IF tasks_ = <<>>
       THEN /\ clientPc' = [clientPc EXCEPT ![c] = "idle"]
            /\ UNCHANGED poolMutex
       ELSE /\ clientPc' = [clientPc EXCEPT ![c] = "wait_to_block"]
            /\ poolMutex' = <<"client", c>>
    /\ UNCHANGED <<num_threads, tasks_, stop_, workerPc, workerTask, tasksDone,
                   submitted, clientTask, waitFor, joinIdx, notThreads>>

\* The client releases the mutex and blocks on condition_.
WaitBlock(c) ==
    /\ clientPc[c] = "wait_to_block"
    /\ clientPc' = [clientPc EXCEPT ![c] = "wait_blocked"]
    /\ poolMutex' = MutexFree
    /\ UNCHANGED <<num_threads, tasks_, stop_, workerPc, workerTask, tasksDone,
                   submitted, clientTask, waitFor, joinIdx, notThreads>>

\* ~ThreadPool(), line 18: stop_ = true, without the mutex.  The owner
\* destroys the pool when no other client is inside a call.
DtorStore ==
    /\ \A c \in Clients : clientPc[c] = "idle"
    /\ stop_' = TRUE
    /\ clientPc' = [clientPc EXCEPT ![Owner] = "dtor_notify"]
    /\ UNCHANGED <<num_threads, tasks_, poolMutex, workerPc, workerTask, tasksDone,
                   submitted, clientTask, waitFor, joinIdx, notThreads>>

\* ~ThreadPool(), line 19: condition_.notify_all() wakes the blocked threads.
DtorNotify ==
    /\ clientPc[Owner] = "dtor_notify"
    /\ workerPc' = [w \in Workers |->
                       IF workerPc[w] = "blocked" THEN "lock" ELSE workerPc[w]]
    /\ clientPc' = [clientPc EXCEPT ![Owner] = "dtor_join"]
    /\ joinIdx' = 1
    /\ UNCHANGED <<num_threads, tasks_, stop_, poolMutex, workerTask, tasksDone,
                   submitted, clientTask, waitFor, notThreads>>

\* ~ThreadPool(), lines 21-25: worker.join() returns once that worker has
\* left worker_loop; after the last join the destructor returns.
DtorJoin ==
    /\ clientPc[Owner] = "dtor_join"
    /\ workerPc[joinIdx] = "exited"
    /\ joinIdx' = joinIdx + 1
    /\ clientPc' = [clientPc EXCEPT
                       ![Owner] = IF joinIdx = num_threads THEN "done" ELSE "dtor_join"]
    /\ UNCHANGED <<num_threads, tasks_, stop_, poolMutex, workerPc, workerTask,
                   tasksDone, submitted, clientTask, waitFor, notThreads>>

\* The steps of a call in progress.
ClientStep(c) ==
    \/ SubmitNotify(c)
    \/ WaitLock(c)
    \/ WaitBlock(c)
    \/ (c = Owner /\ (DtorNotify \/ DtorJoin))

ThreadsNext ==
    \/ \E w \in Workers : WorkerLock(w)
    \/ \E w \in Workers : WorkerBlock(w)
    \/ \E w \in Workers : WorkerRun(w)
    \/ \E c \in Clients : Submit(c)
    \/ \E c \in Clients : SubmitNotify(c)
    \/ \E c \in Clients : WaitCall(c)
    \/ \E c \in Clients : WaitLock(c)
    \/ \E c \in Clients : WaitBlock(c)
    \/ DtorStore
    \/ DtorNotify
    \/ DtorJoin

(***************************************************************************)
(* Specifications, one per component; the other components stay idle.      *)
(***************************************************************************)
\* Every component but the one a specification is about stays as constructed.
IdleBut(Q4, Gemm, Pool, Attn, Batch, Tens, Call, Fwd, Thr) ==
    /\ Q4 /\ Gemm /\ Pool /\ Attn /\ Batch /\ Tens /\ Call /\ Fwd /\ Thr

Q4Init ==
    IdleBut(Q4Start, GemmIdle, PoolIdle, AttnIdle, BatchIdle, TensorIdle, CallIdle, FwdIdle,
            ThreadsIdle)

SpecQ4 == Q4Init /\ [][Q4Next]_vars

GemmInit ==
    IdleBut(Q4Idle, GemmStart, PoolIdle, AttnIdle, BatchIdle, TensorIdle, CallIdle, FwdIdle,
            ThreadsIdle)

SpecGemm == GemmInit /\ [][GemmNext]_vars

PoolInit ==
    IdleBut(Q4Idle, GemmIdle, PoolStart, AttnIdle, BatchIdle, TensorIdle, CallIdle, FwdIdle,
            ThreadsIdle)

SpecPool == PoolInit /\ [][PoolNext]_vars

AttnInit ==
    IdleBut(Q4Idle, GemmIdle, PoolIdle, AttnStart, BatchIdle, TensorIdle, CallIdle, FwdIdle,
            ThreadsIdle)

SpecAttn == AttnInit /\ [][AttnNext]_vars

BatchInit ==
    IdleBut(Q4Idle, GemmIdle, PoolIdle, AttnIdle, BatchStart, TensorIdle, CallIdle, FwdIdle,
            ThreadsIdle)

SpecBatch == BatchInit /\ [][BatchNext]_vars

TensorInit ==
    IdleBut(Q4Idle, GemmIdle, PoolIdle, AttnIdle, BatchIdle, TensorStart, CallIdle, FwdIdle,
            ThreadsIdle)

SpecTensor == TensorInit /\ [][TensorNext]_vars

CallInit ==
    IdleBut(Q4Idle, GemmIdle, PoolIdle, AttnIdle, BatchIdle, TensorIdle, CallStart, FwdIdle,
            ThreadsIdle)

SpecCall == CallInit /\ [][CallNext]_vars

FwdInit ==
    IdleBut(Q4Idle, GemmIdle, PoolIdle, AttnIdle, BatchIdle, TensorIdle, CallIdle, FwdStart,
            ThreadsIdle)

SpecFwd == FwdInit /\ [][FwdNext]_vars

\* The operating system runs every thread that can take a step: a processing
\* thread goes on, and a client inside start() or stop() finishes the call.
\* Nothing obliges a client to call start(), stop() or submit_request().
BatchFairness ==
    /\ \A t \in Threads : WF_vars(LoopStep(t))
    /\ \A c \in Starters : WF_vars(CallerStep(c))

SpecBatchLive == BatchInit /\ [][BatchNext]_vars /\ BatchFairness

ThreadsInit ==
    IdleBut(Q4Idle, GemmIdle, PoolIdle, AttnIdle, BatchIdle, TensorIdle, CallIdle, FwdIdle,
            ThreadsStart)

\* The operating system runs every thread that can take a step: a worker
\* goes on, a task returns, and a client inside submit(), wait() or the
\* destructor goes on.  Nothing obliges a client to begin a call.
ThreadsFairness ==
    /\ \A w \in 1..MaxWorkers : WF_vars(w \in Workers /\ WorkerStep(w))
    /\ \A c \in Clients : WF_vars(ClientStep(c))

SpecThreadsLive == ThreadsInit /\ [][ThreadsNext]_vars /\ ThreadsFairness

(***************************************************************************)
(* Claims about FlashAttention (checked under SpecAttn).                   *)
(***************************************************************************)

\* The flat index of column c of position s of batch b in a
\* [batch, seq_len, hidden] tensor.
At(b, s, c, seq_len, hidden_size) == b * seq_len * hidden_size + s * hidden_size + c

\* C1: a forward call with a non-null KVCache and n new positions appends the
\* key/value vectors of exactly those n positions to the cache and advances
\* current_length by n: after any sequence of such calls current_length (and
\* the number of stored keys and values) equals the number of positions fed.
C1_CacheAdvances ==
    /\ aCache.current_length = aFed
    /\ Len(aCache.keys) = aFed
    /\ Len(aCache.values) = aFed

\* C2: incremental-cache equivalence.  For a sequence of N positions, the
\* output at position N-1 of one full forward pass equals the output of the
\* forward call on position N-1 alone that follows, on the same cache, a
\* forward call over positions 0..N-2.
C2_IncrementalEquivalence ==
    (aOutFull # <<>> /\ aS >= 2 /\ aSlices = <<aS - 1, 1>>) =>
        \A b \in 0..(aB - 1), c \in 0..(aH * aD - 1) :
            aOutInc[2][At(b, 0, c, 1, aH * aD)] = aOutFull[At(b, aS - 1, c, aS, aH * aD)]

\* C3: causal masking.  For every batch b, head and query position s, the
\* output of forward at s is the same for two inputs that agree on the query
\* and on the key/value entries at all positions t <= s, whatever the
\* entries at positions t > s are.
C3_CausalMasking ==
    (aOutFull # <<>> /\ aOutFull2 # <<>>) =>
        \A b \in 0..(aB - 1), s \in 0..aCut, c \in 0..(aH * aD - 1) :
            aOutFull[At(b, s, c, aS, aH * aD)] = aOutFull2[At(b, s, c, aS, aH * aD)]

\* Both passes have run on inputs that differ after a position that is
\* neither the first nor the last, with two batches and two heads, and the
\* outputs do differ at a later position.
C3_Witness ==
    /\ aOutFull # <<>> /\ aOutFull2 # <<>>
    /\ aB = 2 /\ aH = 2 /\ aS >= 3
    /\ aCut >= 1 /\ aCut < aS - 1
    /\ aK2 # aK /\ aV2 # aV
    /\ \E b \in 0..(aB - 1), c \in 0..(aH * aD - 1) :
          aOutFull[At(b, aCut + 1, c, aS, aH * aD)]
            # aOutFull2[At(b, aCut + 1, c, aS, aH * aD)]

(***************************************************************************)
(* Claims about the TensorPool (checked under SpecPool).                   *)
(***************************************************************************)

\* C4: TensorPool reuse after reset.  An allocate(size) that directly follows
\* reset() and whose size fits in a buffer the pool already holds is served
\* by reuse: total_allocated_ does not grow and no new buffer is requested
\* from AlignedAllocator.
C4_ReuseAfterReset ==
    [][(/\ poolLastOp = "reset"
        /\ poolLastOp' = "alloc"
        /\ \E b \in poolBuffers : b.size >= poolReq')
       => (total_allocated_' = total_allocated_ /\ poolBuffers' = poolBuffers)]_vars

(***************************************************************************)
(* Claims about the GEMM kernels (checked under SpecGemm).                 *)
(***************************************************************************)

\* The mathematical entry (m,n) of A*B, summed from the last k down.
RECURSIVE ProductEntry(_, _, _, _, _)
ProductEntry(m, n, K, N, k) ==
    IF k = 0 THEN 0
    ELSE ProductEntry(m, n, K, N, k - 1) + gB[(k - 1) * N + n] * gA[m * K + (k - 1)]

\* C7: GEMM equivalence.  For every M, K, N (K larger than the vector width
\* and not divisible by it included), every alpha, beta, A, B and initial C,
\* matmul_avx2_f32 and matmul_avx512_f32 leave in C the values the reference
\* GemmRef::matmul leaves.
C7_GemmEquivalence ==
    [][(gKernel = "none" /\ gKernel' \in {"avx2", "avx512"}) =>
            gC' = simple_matmul(gA, gB, gC, gM, gK, gN, alpha, beta).C]_vars

\* C8: GemmRef::matmul sets every C[m][n] to alpha * (sum over k of
\* A[m][k]*B[k][n]) + beta * (the value C[m][n] held before the call), stores
\* into each element exactly once, and leaves A and B unchanged.
C8_MatmulRef ==
    [][(gKernel = "none" /\ gKernel' = "ref") =>
            /\ \A m \in 0..(gM - 1), n \in 0..(gN - 1) :
                  /\ gC'[m * gN + n] =
                        alpha * ProductEntry(m, n, gK, gN, gK) + beta * gC[m * gN + n]
                  /\ gWrites'[m * gN + n] = 1
            /\ gA' = gA /\ gB' = gB]_vars

\* The reference kernel has run on a 2 x 9 by 9 x 2 product with beta = 2,
\* and some element of C is neither its old value nor the bare product.
C8_Witness ==
    /\ gKernel = "ref"
    /\ gM = 2 /\ gN = 2 /\ gK = 9 /\ beta = 2 /\ alpha = -1
    /\ \E i \in 0..(gM * gN - 1) :
          gC[i] # alpha * ProductEntry(i \div gN, i % gN, gK, gN, gK)

(***************************************************************************)
(* Claims about the Q4 codec (checked under SpecQ4).                       *)
(***************************************************************************)

\* Distinct elements of an M x K matrix get distinct nibbles exactly when a
\* row never starts in the middle of a byte.
NibblesDistinct(M, K) == M = 1 \/ K % 2 = 0

\* The quotient weight/scale of element i rounds into the representable range.
InQ4Range(i) == LET s == scales[i \div qK]
                IN weights[i] >= -8 * s /\ weights[i] <= 7 * s

\* C5: Q4 round-trip bound.  For every M, K (odd K with M >= 2 included) and
\* every weight within [-8*scale, 7*scale], the value dequantize_q4_rowwise
\* yields from the output of pack_q4_rowwise differs from the weight by at
\* most scale/2.
C5_RoundTripBound ==
    (qpacked /\ qout # <<>>) =>
        \A i \in 0..(qM * qK - 1) :
            InQ4Range(i) => 2 * Abs(qout[i] - weights[i]) <= scales[i \div qK]

\* C6: fused-kernel equivalence.  For every packed buffer, scales, x, M and K,
\* y of matvec_q4_rowwise equals the dense matrix-vector product of the
\* dequantised matrix with x.
C6_FusedEquivalence ==
    (qout # <<>> /\ qy # <<>>) =>
        qy = GemmRef_matvec(qout, qx, [m \in 0..(qM - 1) |-> 0], qM, qK, 1, 0)

\* Both kernels have run on a buffer of two rows and odd K, with a row whose
\* scale is not 1 and whose result is not 0.
C6_Witness ==
    /\ qout # <<>> /\ qy # <<>>
    /\ qM = 2 /\ qK = 3
    /\ \E m \in 0..(qM - 1) : scales[m] > 1 /\ qy[m] # 0

\* C9: Q4 binary layout.  After pack_q4_rowwise, for every M, K and element
\* (m,k), the nibble of byte (m*K+k)/2 (low for even k, high for odd k) holds
\* the two's-complement quantised value of that element: no other element's
\* write has destroyed it.
C9_Layout ==
    qpacked =>
        \A i \in 0..(qM * qK - 1) :
            LET m == i \div qK
                k == i % qK
                byte == qweights[(m * qK + k) \div 2]
                nib == IF k % 2 = 0 THEN byte % 16 ELSE byte \div 16
            IN nib = NibbleOf(QuantizeQ4(weights[i], scales[m], castMode))

\* C10: out-of-range clamping.  After pack_q4_rowwise every weight whose
\* quotient rounds above 7 is stored as 7 and every one that rounds below -8
\* as -8 (stated for the shapes whose elements have nibbles of their own).
C10_Clamped ==
    (qpacked /\ NibblesDistinct(qM, qK)) =>
        \A i \in 0..(qM * qK - 1) :
            LET r == RoundQuot(weights[i], scales[i \div qK])
                stored == decode_q4_signed(ReadNibble(qweights, i \div qK, i % qK, qK))
            IN /\ (r > 7 => stored = 7)
               /\ (r < -8 => stored = -8)

(***************************************************************************)
(* Claims about BatchProcessor (checked under SpecBatch, SpecBatchLive).   *)
(***************************************************************************)

\* The states a promise is in once set_value or set_exception stored into it.
Completed == {"generated", "echo", "exception"}

\* C11: in every reachable state, under any interleaving of submit_request
\* calls with the processing threads, the queue holds at most queue_size_
\* requests; and a submit_request issued when the queue holds queue_size_
\* requests fails with the queue-full error and leaves the queue unchanged.
C11_BoundedQueue ==
    /\ [](Len(request_queue_) <= queue_size_)
    /\ [][(Len(request_queue_) >= queue_size_ /\ (SubmitAccepted \/ SubmitRejected))
            => (submitResult' = "full" /\ request_queue_' = request_queue_)]_vars

\* C11 happens: a submission was rejected on a full queue while a processing
\* thread is alive.
C11_Witness ==
    /\ submitResult = "full"
    /\ Len(request_queue_) = queue_size_
    /\ \E t \in Threads : loopPc[t] \notin {"unborn", "exited"}

\* C12: every request submit_request accepted eventually has its promise
\* completed, with a value or a failure, and no promise is stored into twice,
\* for any interleaving of submit_request, start and stop.
C12_SingleResult ==
    /\ \A r \in Requests : [](promise[r] = "pending" => <>(promise[r] \in Completed))
    /\ [](\A r \in Requests : setCount[r] <= 1)

\* C13: a request whose inference failed receives an error result, not a
\* normal value, and every request whose inference did not fail receives its
\* own normal result, whatever happened to the other requests of its batch.
C13_FailureIsolation ==
    \A r \in Requests :
        promise[r] \in Completed =>
            IF inferenceFails[r] THEN promise[r] = "exception"
                                 ELSE promise[r] = "generated"

\* C14: every batch holds at most max_batch_size_ requests, and at any time
\* at most one batch is being processed, for any interleaving of start, stop
\* and submit_request, concurrent start calls included.
C14_OneBoundedBatch ==
    /\ \A t \in Threads : Len(loopBatch[t]) <= max_batch_size_
    /\ Cardinality({t \in Threads : loopPc[t] = "process"}) <= 1

\* The shapes of the call are ones GemmRef::matmul has to refuse: a tensor
\* that is not rank 2, A's columns differing from B's rows, or C not of
\* shape [rows of A, columns of B].
MatmulMismatch ==
    IF Len(cShapeA) # 2 \/ Len(cShapeB) # 2 \/ Len(cShapeC) # 2 THEN TRUE
    ELSE cShapeA[2] # cShapeB[1] \/ cShapeC # <<cShapeA[1], cShapeB[2]>>

\* The shapes of the call are ones GemmRef::matvec has to refuse: A not
\* rank 2, x or y not rank 1, x not as long as A has columns, or y not as
\* long as A has rows.
MatvecMismatch ==
    IF Len(cShapeA) # 2 \/ Len(cShapeB) # 1 \/ Len(cShapeC) # 1 THEN TRUE
    ELSE cShapeB # <<cShapeA[2]>> \/ cShapeC # <<cShapeA[1]>>

\* C15: a call of GemmRef::matmul or GemmRef::matvec whose shapes do not
\* fit fails with an error, and the failing call leaves every element of
\* the destination as it was.
C15_ShapeErrors ==
    [][/\ (cOp' = "matmul" /\ MatmulMismatch) => (cStatus' = "error" /\ cC' = cC)
       /\ (cOp' = "matvec" /\ MatvecMismatch) => (cStatus' = "error" /\ cC' = cC)
       /\ cStatus' = "error" => cC' = cC]_vars

\* C15 witness: a matmul of rank-2 tensors whose inner dimensions agree was
\* refused because C has the wrong shape, and C holds its old elements.
C15_Witness ==
    /\ cOp = "matmul"
    /\ cStatus = "error"
    /\ Len(cShapeA) = 2 /\ Len(cShapeB) = 2 /\ Len(cShapeC) = 2
    /\ cShapeA[2] = cShapeB[1]
    /\ cShapeC # <<cShapeA[1], cShapeB[2]>>
    /\ cC = CallData(cShapeC, 2)
    /\ \E i \in DOMAIN cC : cC[i] # 0

\* The inputs of the forward call are ones it has to refuse: an input that
\* is not rank 3, a batch size, sequence length or hidden size of key or
\* value that differs from the query's, or a hidden size that is not
\* num_heads * head_dim.
FwdMismatch ==
    IF Len(fShapeQ) # 3 \/ Len(fShapeK) # 3 \/ Len(fShapeV) # 3 THEN TRUE
    ELSE \/ fShapeK # fShapeQ
         \/ fShapeV # fShapeQ
         \/ fShapeQ[3] # fHeads * fHeadDim

\* C16: FlashAttention::forward fails with an error for every shape
\* mismatch among its inputs, and a call that returns has read no input past
\* its end and has written every element of the output.
C16_InputValidation ==
    fStatus # "none" =>
        /\ FwdMismatch => fStatus = "error"
        /\ fStatus = "ok" =>
              /\ ~fReadPast
              /\ fWritten = 0..(calculate_numel(fShapeQ, "wrap") - 1)

\* The product of the dimension sizes of a shape, 0 for the empty shape.
DimProduct(shape) ==
    IF Len(shape) = 0 THEN 0
    ELSE IF Len(shape) = 1 THEN shape[1]
    ELSE shape[1] * shape[2]

\* What C17 asks of a step: when it is d = s.reshape(new_shape) on a tensor
\* s that holds its buffer, the call ends in an error and changes nothing if
\* the product of new_shape is not s's numel, and otherwise d is a new
\* tensor of shape new_shape with s's dtype, numel and byte_size, a buffer
\* of its own holding s's bytes, and s is as before.
ReshapeAsSpecified ==
    LET s == tLast'.src
        d == tLast'.dst
        x == tensors[s]
        y == tensors'[d]
    IN (tLast'.op = "reshape" /\ x.data # NULL) =>
         IF DimProduct(tLast'.shape) # x.numel
         THEN /\ tLast'.status = "error"
              /\ tensors' = tensors
              /\ heap' = heap
         ELSE /\ tLast'.status = "ok"
              /\ y.shape = tLast'.shape
              /\ y.dtype = x.dtype
              /\ y.numel = x.numel
              /\ y.byte_size = x.byte_size
              /\ y.data \notin DOMAIN heap
              /\ y.data \in DOMAIN heap'
              /\ heap'[y.data] = heap[x.data]
              /\ tensors'[s] = x
              /\ heap'[x.data] = heap[x.data]

\* C17: Tensor::reshape(new_shape) fails exactly when the number of elements
\* of new_shape differs from the tensor's; otherwise it returns a new tensor
\* of that shape with the same dtype, numel, byte_size and bytes, and leaves
\* the source unchanged.
C17_Reshape == [][ReshapeAsSpecified]_vars

\* The byte size the closed-form rule gives numel elements of a dtype.
ClosedFormBytes(numel, dtype) ==
    IF dtype = "FP32" THEN numel * 4
    ELSE IF dtype = "FP16" THEN numel * 2
    ELSE IF dtype = "INT8" THEN numel
    ELSE CHOOSE n \in 0..numel : 2 * n >= numel /\ 2 * n < numel + 2

\* C18: every constructed Tensor has numel equal to the product of its
\* dimensions (0 for the empty shape) and byte_size equal to numel*4 for
\* FP32, numel*2 for FP16, numel for INT8 and ceil(numel/2) for Q4.
C18_SizeRule ==
    \A s \in Slots :
        tensors[s].data # NULL =>
            /\ tensors[s].numel = DimProduct(tensors[s].shape)
            /\ tensors[s].byte_size = ClosedFormBytes(tensors[s].numel, tensors[s].dtype)

\* The size in bytes of one element of a dense dtype.
DenseElementSize(dtype) ==
    IF dtype = "FP32" THEN 4 ELSE IF dtype = "FP16" THEN 2 ELSE 1

\* What C19 asks of a step: s.data<T>() ends in an error exactly when s is
\* Q4 or sizeof(T) is not the element size of its dtype, s.q4_data() ends in
\* an error exactly when s is not Q4, and an access that fails changes no
\* tensor and no buffer.
AccessAsSpecified ==
    LET x == tensors[tLast'.src]
    IN /\ tLast'.op = "data" =>
             (tLast'.status = "error"
                <=> (x.dtype = "Q4" \/ tLast'.size # DenseElementSize(x.dtype)))
       /\ tLast'.op = "q4_data" => (tLast'.status = "error" <=> x.dtype # "Q4")
       /\ tLast'.op \in {"data", "q4_data"} =>
             /\ tLast'.status \in {"ok", "error"}
             /\ tLast'.status = "error" => (tensors' = tensors /\ heap' = heap)

\* C19: data<T>() fails whenever the dtype is Q4 or sizeof(T) differs from
\* the dtype's element size and succeeds otherwise; q4_data() fails whenever
\* the dtype is not Q4 and succeeds for Q4; a failing access leaves the
\* tensor unchanged.
C19_AccessPaths == [][AccessAsSpecified]_vars

\* C19 witness: a Q4 tensor that holds written bytes was asked for
\* data<uint8_t>() and the call failed; the bytes are still there.
C19_Witness ==
    /\ tLast.op = "data"
    /\ tLast.size = 1
    /\ tLast.status = "error"
    /\ tensors[tLast.src].dtype = "Q4"
    /\ tensors[tLast.src].data # NULL
    /\ tensors[tLast.src].byte_size > 0
    /\ heap[tensors[tLast.src].data] = BytePattern(tensors[tLast.src].byte_size)

\* The program variables whose Tensor holds buffer b.
Owners(b) == {s \in Slots : tensors[s].data = b}

\* What C20 asks of a step: when it moves the tensor of s into another
\* variable d (by move construction or move assignment), d has afterwards
\* the shape, dtype, numel, byte_size and buffer s had, and s has an empty
\* shape and no buffer.
MoveAsSpecified ==
    LET s == tLast'.src
        d == tLast'.dst
    IN (tLast'.op \in {"move_construct", "move_assign"} /\ s # d) =>
         /\ tensors'[d] = tensors[s]
         /\ tensors'[s].data = NULL
         /\ tensors'[s].shape = <<>>
         /\ tensors[s].data # NULL => heap'[tensors'[d].data] = heap[tensors[s].data]

\* C20: after any sequence of constructions, moves and reshapes every
\* buffer is owned by exactly one Tensor and every Tensor that holds a
\* buffer holds a live one; a move gives the destination what the source
\* had and leaves the source without a buffer.
C20_SingleOwnership ==
    /\ [](\A b \in DOMAIN heap : Cardinality(Owners(b)) = 1)
    /\ [](\A s \in Slots : tensors[s].data # NULL => tensors[s].data \in DOMAIN heap)
    /\ [][MoveAsSpecified]_vars

\* C20 witness: a move assignment between two variables that both held a
\* buffer: the destination now holds the written bytes of the source, the
\* source holds nothing, and one buffer is left.
C20_Witness ==
    /\ tLast.op = "move_assign"
    /\ tLast.src # tLast.dst
    /\ tensors[tLast.src].data = NULL
    /\ tensors[tLast.dst].data # NULL
    /\ tensors[tLast.dst].byte_size > 0
    /\ heap[tensors[tLast.dst].data] = BytePattern(tensors[tLast.dst].byte_size)
    /\ Cardinality(DOMAIN heap) = 1

(***************************************************************************)
(* Further claims about the TensorPool (checked under SpecPool).           *)
(***************************************************************************)

\* How many times the destructor handed pointer ptr to free().
TimesFreed(ptr) == Cardinality({i \in DOMAIN poolFreed : poolFreed[i] = ptr})

\* C21: after the destructor of a TensorPool every buffer the pool obtained
\* from AlignedAllocator::allocate, in the constructor and on each growth,
\* has been passed to AlignedAllocator::deallocate exactly once.
C21_DestructorReleases ==
    poolLastOp = "dtor" => \A b \in poolBuffers : TimesFreed(b.base) = 1

(***************************************************************************)
(* Further claims about FlashAttention (checked under SpecAttn).           *)
(***************************************************************************)

\* The sum of w[0..last], by itself.
RECURSIVE WeightTotal(_, _)
WeightTotal(w, last) == IF last = 0 THEN w[0] ELSE w[last] + WeightTotal(w, last - 1)

\* What C22 asks of compute_attention on head tensors Q, K, V for query
\* position s of batch b, `out` being the output of the head: the value
\* subtracted is the largest scaled score over t in 0..s, so that every
\* exponent argument is <= 0 and one is 0; the exponentials sum to at least
\* 1; the weights sum to 1 (each weight is rounded down to the last place of
\* the fixed point, so the sum lacks less than one unit per weight); and
\* out at (b,s) is the sum of the values weighted by them.
StableSoftmaxAt(Q, K, V, out, b, s, seq_len, head_dim) ==
    LET scores == [t \in 0..s |-> Score(Q, K, b, s, t, seq_len, head_dim)]
        subtracted == MaxScore(scores, s)
        exps == [t \in 0..s |-> ExpFix(scores[t] - subtracted)]
        w == SoftmaxWeights(Q, K, b, s, seq_len, head_dim, s)
    IN /\ \A t \in 0..s : scores[t] - subtracted <= 0
       /\ \E t \in 0..s : scores[t] - subtracted = 0
       /\ WeightTotal(exps, s) >= AttnOne
       /\ DOMAIN w = 0..s
       /\ \A t \in 0..s : w[t] >= 0
       /\ WeightTotal(w, s) <= AttnOne
       /\ WeightTotal(w, s) > AttnOne - (s + 1)
       /\ \A t \in 0..s : w[t] * WeightTotal(exps, s) <= exps[t] * AttnOne
       /\ \A t \in 0..s : (w[t] + 1) * WeightTotal(exps, s) > exps[t] * AttnOne
       /\ \A d \in 0..(head_dim - 1) :
             out[b * seq_len * head_dim + s * head_dim + d] =
                WeightTotal([t \in 0..s |->
                    w[t] * V[b * seq_len * head_dim + t * head_dim + d]], s)

\* C22: stable softmax.  In every call forward makes of compute_attention,
\* for every batch and query position s, the maximum of the scaled scores
\* over t in [0,s] is subtracted before exponentiation, the exponent sum is
\* at least 1, the normalised weights sum to 1 and the output at s is the
\* weight-averaged value vector.
C22_StableSoftmax ==
    [][(aOutFull = <<>> /\ aOutFull' # <<>>) =>
        \A head \in 0..(aH - 1) :
            LET Q == ExtractHead(aQ, aB, aS, aH * aD, head, aD)
                K == ExtractHead(aK, aB, aS, aH * aD, head, aD)
                V == ExtractHead(aV, aB, aS, aH * aD, head, aD)
                out == [i \in 0..(aB * aS * aD - 1) |->
                           aOutFull'[At(i \div (aS * aD), (i % (aS * aD)) \div aD,
                                        head * aD + (i % aD), aS, aH * aD)]]
            IN \A b \in 0..(aB - 1), s \in 0..(aS - 1) :
                  StableSoftmaxAt(Q, K, V, out, b, s, aS, aD)]_vars

\* C22 witness: forward has run on a sequence of at least three positions
\* with head_dim 2, and at a position s >= 2 the scores differ by 3 or more,
\* so that an exponent argument is well below 0 and the weights are unequal.
C22_Witness ==
    /\ aOutFull # <<>>
    /\ aS >= 3 /\ aD = 2
    /\ \E head \in 0..(aH - 1), b \in 0..(aB - 1), s \in 2..(aS - 1) :
          LET Q == ExtractHead(aQ, aB, aS, aH * aD, head, aD)
              K == ExtractHead(aK, aB, aS, aH * aD, head, aD)
              w == SoftmaxWeights(Q, K, b, s, aS, aD, s)
          IN /\ \E t, u \in 0..s :
                   Score(Q, K, b, s, t, aS, aD) - Score(Q, K, b, s, u, aS, aD) >= 3
             /\ \E t, u \in 0..s : w[t] > 0 /\ w[t] < w[u]


(***************************************************************************)
(* Further claims about GemmRef (checked under SpecCall).                  *)
(***************************************************************************)

\* sum over k in 0..K-1 of A[m][k] * x[k], from the last term down.
RECURSIVE RowTimesVector(_, _, _, _, _)
RowTimesVector(A, x, m, K, k) ==
    IF k = 0 THEN 0
    ELSE RowTimesVector(A, x, m, K, k - 1) + x[k - 1] * A[m * K + (k - 1)]

\* C23: GemmRef::matvec(A[M,K], x[K], y[M], alpha, beta) leaves in y the
\* values GemmRef::matmul leaves in C when x is taken as B[K,1] and y as
\* C[M,1] with the same alpha and beta:
\* y[m] = alpha * sum over k of A[m][k]*x[k] + beta * (the old y[m]).
C23_MatvecIsMatmul ==
    [][(cOp' = "matvec" /\ cStatus' = "ok") =>
        LET M == cShapeA[1]
            K == cShapeA[2]
            viewed == GemmRef_matmul(cA, cB, cC, cShapeA, <<K, 1>>, <<M, 1>>,
                                     cAlpha', cBeta')
        IN /\ viewed.status = "ok"
           /\ cC' = viewed.C
           /\ DOMAIN cC' = 0..(M - 1)
           /\ \A m \in 0..(M - 1) :
                 cC'[m] = cAlpha' * RowTimesVector(cA, cB, m, K, K) + cBeta' * cC[m]]_vars

\* C23 witness: a matvec of a 2 x 2 matrix with alpha = 2 and beta = 2 has
\* returned, and y holds neither its old values nor the bare product.
C23_Witness ==
    /\ cOp = "matvec" /\ cStatus = "ok"
    /\ cShapeA = <<2, 2>>
    /\ cAlpha = 2 /\ cBeta = 2
    /\ cC # CallData(cShapeC, 2)
    /\ \E m \in 0..1 : cC[m] # cAlpha * RowTimesVector(cA, cB, m, 2, 2)

(***************************************************************************)
(* Further claims about the BatchProcessor (checked under SpecBatchLive).  *)
(***************************************************************************)

\* Client c is inside stop().
InStop(c) == callerPc[c] \in {"stop_notify", "stop_join"}

\* C25: BatchProcessor::stop stops processing and waits for completion: in
\* every interleaving with the processing thread a call of stop()
\* eventually returns, and when it returns the processing thread has exited
\* and no batch is still being processed.
C25_StopWaits ==
    /\ \A c \in Stoppers : InStop(c) ~> ~InStop(c)
    /\ [][\A c \in Stoppers :
            (InStop(c) /\ ~InStop(c)') =>
                \A t \in Threads : loopPc'[t] \in {"unborn", "exited"}]_vars

\* A chunk is free for a request when it holds memory and is large enough.
FreeFor(ch, i, size) == ch[i].data # NULL /\ ch[i].size >= size

\* A step of TensorPool::allocate that returned.
AllocReturns == poolLastOp \notin {"overflow", "dtor"} /\ poolLastOp' = "alloc" /\ chunks' # chunks

\* C26: allocate(size) is first-fit with splitting.  When some chunk is free
\* and large enough, the call returns the start of the first such chunk in
\* list order; a larger chunk leaves a free remainder of (chunk size - size)
\* bytes that starts `size` bytes further and is linked right after it; the
\* chunks before and after are left as they were.
C26_FirstFitSplit ==
    [][\A i \in 1..Len(chunks) :
          (/\ AllocReturns
           /\ FreeFor(chunks, i, poolReq')
           /\ \A j \in 1..(i - 1) : ~FreeFor(chunks, j, poolReq'))
          => /\ poolResult' = chunks[i].data
             /\ chunks'[i].data = NULL
             /\ \A j \in 1..(i - 1) : chunks'[j] = chunks[j]
             /\ IF chunks[i].size > poolReq'
                THEN /\ Len(chunks') = Len(chunks) + 1
                     /\ chunks'[i + 1] = [data |-> chunks[i].data + poolReq',
                                          size |-> chunks[i].size - poolReq']
                     /\ \A j \in (i + 1)..Len(chunks) : chunks'[j + 1] = chunks[j]
                ELSE /\ Len(chunks') = Len(chunks)
                     /\ \A j \in (i + 1)..Len(chunks) : chunks'[j] = chunks[j]]_vars

\* C26 witness: a request served by a chunk that is not the first of the
\* list and that was larger than the request, so that it was split.
C26_Witness ==
    /\ poolLastOp = "alloc"
    /\ poolReq > 0
    /\ \E i \in 2..(Len(chunks) - 1) :
          /\ chunks[i].data = NULL
          /\ chunks[i + 1].data = poolResult + poolReq
          /\ chunks[i + 1].size > 0
          /\ \E j \in 1..(i - 1) : chunks[j].data # NULL /\ chunks[j].size < poolReq

\* No chunk of the list is free and large enough for the request.
NoChunkFits(ch, size) == \A i \in 1..Len(ch) : ~FreeFor(ch, i, size)

\* C27: when no free chunk fits, allocate(size) obtains one new chunk of
\* max(size, total_allocated_/2) bytes, adds exactly that to
\* total_allocated_, and the retry returns memory from it: the call
\* returns after one growth step, for every size and every initial size.
C27_GrowthAndRetry ==
    [][(poolLastOp' \in {"alloc", "overflow"} /\ NoChunkFits(chunks, poolReq'))
          => /\ poolLastOp' = "alloc"
             /\ total_allocated_' = total_allocated_
                                      + Max(poolReq', total_allocated_ \div 2)
             /\ Cardinality(poolBuffers') = Cardinality(poolBuffers) + 1]_vars

\* The regions allocate returned since the last reset that hold bytes.
LiveRegions == {i \in 1..Len(poolRegions) : poolRegions[i].size > 0}

\* C29: between two resets, any two regions of size > 0 that allocate
\* returned are disjoint, and each lies inside one buffer the pool obtained
\* from AlignedAllocator.
C29_NoOverlap ==
    /\ \A i, j \in LiveRegions :
          i < j => \/ poolRegions[i].base + poolRegions[i].size <= poolRegions[j].base
                   \/ poolRegions[j].base + poolRegions[j].size <= poolRegions[i].base
    /\ \A i \in LiveRegions :
          \E b \in poolBuffers :
             /\ b.base <= poolRegions[i].base
             /\ poolRegions[i].base + poolRegions[i].size <= b.base + b.size

\* C29 witness: three regions with bytes are out, two of them cut from the
\* same buffer and the third from another one.
C29_Witness ==
    \E i, j, k \in LiveRegions :
       \E b, c \in poolBuffers :
          /\ i < j /\ b # c
          /\ b.base <= poolRegions[i].base /\ poolRegions[i].base < b.base + b.size
          /\ b.base <= poolRegions[j].base /\ poolRegions[j].base < b.base + b.size
          /\ c.base <= poolRegions[k].base /\ poolRegions[k].base < c.base + c.size

\* C28: simd::matvec_q4_avx2 computes what matvec_q4_rowwise computes, for
\* every packed buffer, scales, x, M and K:
\* y[m] = scales[m] * sum over k of signed_nibble(m,k) * x[k].
C28_Avx2MatchesReference ==
    (qy # <<>> /\ qyAvx # <<>>) => qyAvx = qy

(***************************************************************************)
(* Claims about ThreadPool (checked under SpecThreadsLive).                *)
(***************************************************************************)

\* A client is inside wait().
InWait(c) == clientPc[c] \in {"wait_lock", "wait_to_block", "wait_blocked"}

\* C24: whenever wait() returns, every task submitted before the call has
\* finished executing, and wait() does return once the workers have
\* finished all the tasks submitted before it.
C24_WaitForAll ==
    /\ [][\A c \in Clients :
            (InWait(c) /\ ~InWait(c)') => waitFor[c] \subseteq tasksDone']_vars
    /\ \A c \in Clients : (InWait(c) /\ waitFor[c] \subseteq tasksDone) ~> ~InWait(c)

\* The owner is inside the destructor.
InDtor == clientPc[Owner] \in {"dtor_notify", "dtor_join"}

\* C30: in every interleaving of the destructor with the workers, every
\* worker eventually observes stop_ and exits, it exits only when the task
\* queue is empty, and the destructor's joins return.
C30_ShutdownTerminates ==
    /\ [][\A w \in Workers :
            (workerPc[w] # "exited" /\ workerPc'[w] = "exited") => tasks_ = <<>>]_vars
    /\ InDtor ~> (\A w \in Workers : workerPc[w] = "exited")
    /\ InDtor ~> (clientPc[Owner] = "done")
====
